---- MODULE Spec2Model ----
EXTENDS Integers, Sequences, FiniteSets

(***************************************************************************)
(* Model of unmergeAndFillCells and processExcelData                       *)
(* (src/server/routes.ts).                                                 *)
(*                                                                         *)
(* A JavaScript string is a sequence of UTF-16 code units; each code unit  *)
(* is named by a one-character string, and a code unit outside ASCII by    *)
(* its code point ("U+81EA").  A cell of the grid returned by              *)
(* XLSX.utils.sheet_to_json(..., {header: 1, defval: ""}) is a string, a   *)
(* number, or undefined (an index past the end of the row).                *)
(***************************************************************************)

VARIABLES
    pc,                   \* position: "unmerge", "container", "header", "scan",
                          \* "post", "done", "threw"
    sheet,                \* what sheet_to_json returned, before any merge is processed
    merges,               \* worksheet['!merges']
    mergeIx,              \* merges processed so far by the loop of line 65
    data,                 \* the grid, changed in place by unmergeAndFillCells
    containerNumber,      \* let containerNumber of line 105
    dataStartRow,         \* let dataStartRow of line 130
    dataLen,              \* data.length
    i,                    \* loop index of the row scan
    consecutiveEmptyRows, \* the counter of line 152
    warehouseSummary,     \* own properties of the object, in insertion order
    referenceDetailsMap,  \* own properties of the object, in insertion order
    totalCtn,             \* running grand total
    cur,                  \* const row = data[i] of the iteration just executed
    branch,               \* the branch that iteration took
    result,               \* the ProcessedData returned
    workbook,             \* the rows of the worksheet 'Summary', by row number
    run,                  \* the call of processExcelData on this worksheet: 1 or 2
    first,                \* what the first call returned
    blankRun,             \* history: fully-empty rows read in a row, up to cur
    seenRun,              \* history: a run of EmptyRowLimit fully-empty rows was read
    counted,              \* history: rows that passed the skip policy
    landedSum,            \* history: quantities of the rows that changed a bucket
    droppedRows,          \* history: rows that passed the skip policy and changed no bucket
    droppedSum,           \* history: the quantities of those rows
    uploads,              \* the invocations of the upload handler, by number
    files,                \* MemStorage.files, by id
    currentId,            \* MemStorage.currentId
    disk,                 \* the files of the directory uploads/, by name
    now                   \* what Date.now() returns

vars == <<pc, sheet, merges, mergeIx, data, containerNumber, dataStartRow,
          dataLen, i, consecutiveEmptyRows, warehouseSummary,
          referenceDetailsMap, totalCtn, cur, branch, result, workbook,
          run, first, blankRun, seenRun, counted, landedSum, droppedRows,
          droppedSum, uploads, files, currentId, disk, now>>

\* the state of the upload handler, of the storage and of the directory
handlerVars == <<uploads, files, currentId, disk, now>>

\* the calls made so far
callVars == <<run, first>>

\* the state of the row scan
scanVars == <<i, consecutiveEmptyRows, warehouseSummary, referenceDetailsMap,
              totalCtn, cur, branch, blankRun, seenRun, counted, landedSum,
              droppedRows, droppedSum>>

\* the state of the phases before the row scan
gridVars == <<sheet, merges, mergeIx, data, containerNumber, dataStartRow>>

aggregates == <<warehouseSummary, referenceDetailsMap, totalCtn>>

----------------------------------------------------------------------------
\* Bounds of the model.

\* rows of the data region in Spec
MaxRows == 3
\* rows of the data region in SpecLong
MaxLongRows == 14
\* rows that pass the skip policy in one sheet
MaxCounted == 2
\* merge ranges of a worksheet in SpecMerge
MaxMerges == 2
\* rows of a worksheet in SpecSheet, after its leading rows
MaxSheetRows == 3

----------------------------------------------------------------------------
\* Program constants.

Ref1Col == 0
Ref2Col == 2
CtnCol == 3
WarehouseCol == 12
NoteCol == 13
MinCells == 4
EmptyRowLimit == 10
ShortCodeLen == 4
ContainerRows == 5
ContainerCols == 15
ContainerLetters == 4
ContainerDigits == 7
NoHeaderStart == 2

----------------------------------------------------------------------------
\* Strings.

UPS == <<"U", "P", "S">>
SelfPickup == <<"U+81EA", "U+63D0">>
TruckDelivery == <<"U+5361", "U+8F66", "U+6D3E", "U+9001">>
EqualsSign == <<"=">>
TotalWord == <<"t", "o", "t", "a", "l">>
Underscore == <<"_">>
SelfType == <<"S", "e", "l", "f">>
PDType == <<"P", "D">>

UpperCase == <<"A", "B", "C", "D", "E", "F", "G", "H", "I", "J", "K", "L", "M",
               "N", "O", "P", "Q", "R", "S", "T", "U", "V", "W", "X", "Y", "Z">>
LowerCase == <<"a", "b", "c", "d", "e", "f", "g", "h", "i", "j", "k", "l", "m",
               "n", "o", "p", "q", "r", "s", "t", "u", "v", "w", "x", "y", "z">>
Digits == <<"0", "1", "2", "3", "4", "5", "6", "7", "8", "9">>
WhiteSpace == {" ", "\t", "\n"}

IndexOf(seq, c) == CHOOSE k \in 1..Len(seq) : seq[k] = c
Occurs(seq, c) == \E k \in 1..Len(seq) : seq[k] = c

\* the lower-case letter of each upper-case letter
LowerOf ==
    [c \in { UpperCase[k] : k \in 1..Len(UpperCase) } |->
        LowerCase[IndexOf(UpperCase, c)]]

\* String.prototype.toLowerCase
ToLowerCase(t) ==
    [k \in 1..Len(t) |-> IF t[k] \in DOMAIN LowerOf THEN LowerOf[t[k]] ELSE t[k]]

\* String.prototype.includes
Includes(t, pat) ==
    \E k \in 0..(Len(t) - Len(pat)) : SubSeq(t, k + 1, k + Len(pat)) = pat

RECURSIVE TrimStart(_)
TrimStart(t) ==
    IF t # <<>> /\ Head(t) \in WhiteSpace THEN TrimStart(Tail(t)) ELSE t

RECURSIVE TrimEnd(_)
TrimEnd(t) ==
    IF t # <<>> /\ t[Len(t)] \in WhiteSpace
    THEN TrimEnd(SubSeq(t, 1, Len(t) - 1)) ELSE t

\* String.prototype.trim
Trim(t) == TrimEnd(TrimStart(t))

RECURSIVE DigitsOf(_)
DigitsOf(n) ==
    IF n < 10 THEN <<Digits[n + 1]>>
    ELSE DigitsOf(n \div 10) \o <<Digits[(n % 10) + 1]>>

\* Number.prototype.toString of an integer
NumberToString(n) == IF n < 0 THEN <<"-">> \o DigitsOf(0 - n) ELSE DigitsOf(n)

\* the value of one digit in the radix, -1 when it is no digit of the radix
DigitValue(c, radix) ==
    IF Occurs(Digits, c) THEN IndexOf(Digits, c) - 1
    ELSE IF radix = 16 /\ Occurs(SubSeq(UpperCase, 1, 6), c)
         THEN 9 + IndexOf(UpperCase, c)
    ELSE IF radix = 16 /\ Occurs(SubSeq(LowerCase, 1, 6), c)
         THEN 9 + IndexOf(LowerCase, c)
    ELSE 0 - 1

RECURSIVE ParseDigits(_, _, _)
ParseDigits(t, radix, acc) ==
    IF t # <<>> /\ DigitValue(Head(t), radix) >= 0
    THEN ParseDigits(Tail(t), radix, acc * radix + DigitValue(Head(t), radix))
    ELSE acc

\* parseInt(string): leading white space, a sign, a 0x prefix, then the
\* longest run of digits; NaN when there is no digit.
ParseInt(t) ==
    LET s == TrimStart(t)
        neg == s # <<>> /\ Head(s) = "-"
        u == IF s # <<>> /\ Head(s) \in {"-", "+"} THEN Tail(s) ELSE s
        hex == Len(u) >= 2 /\ u[1] = "0" /\ u[2] \in {"x", "X"}
        radix == IF hex THEN 16 ELSE 10
        d == IF hex THEN Tail(Tail(u)) ELSE u
        none == d = <<>> \/ DigitValue(Head(d), radix) < 0
        v == ParseDigits(d, radix, 0)
    IN  [nan |-> none, n |-> IF none THEN 0 ELSE IF neg THEN 0 - v ELSE v]

----------------------------------------------------------------------------
\* Cells and rows.

Str(s) == [k |-> "str", n |-> 0, s |-> s]
Num(n) == [k |-> "num", n |-> n, s |-> <<>>]
Undefined == [k |-> "undef", n |-> 0, s |-> <<>>]

\* row[j] with a 0-based index
At(row, j) == IF j < Len(row) THEN row[j + 1] ELSE Undefined

\* cell.toString() / String(cell) of a defined cell
ToString(c) == IF c.k = "num" THEN NumberToString(c.n) ELSE c.s

\* !cell
Falsy(c) ==
    \/ c.k = "undef"
    \/ c.k = "num" /\ c.n = 0
    \/ c.k = "str" /\ c.s = <<>>

\* row[j]?.toString().trim() || ""
TrimmedField(row, j) ==
    IF At(row, j).k = "undef" THEN <<>> ELSE Trim(ToString(At(row, j)))

\* row[3]?.toString(); parseInt(undefined) is NaN
CtnText(row) ==
    IF At(row, CtnCol).k = "undef"
    THEN <<"u", "n", "d", "e", "f", "i", "n", "e", "d">>
    ELSE ToString(At(row, CtnCol))

Reference1(row) == TrimmedField(row, Ref1Col)
Reference2(row) == TrimmedField(row, Ref2Col)
CtnValue(row) == IF ParseInt(CtnText(row)).nan THEN 0 ELSE ParseInt(CtnText(row)).n
Warehouse(row) == TrimmedField(row, WarehouseCol)
Note(row) == TrimmedField(row, NoteCol)

----------------------------------------------------------------------------
\* unmergeAndFillCells (lines 54-98).  The grid is an array of rows; an index
\* of the array that holds no row reads as undefined (NoRow).

NoRow == << [k |-> "norow", n |-> 0, s |-> <<>>] >>

\* data[r] is an array
HasRow(d, r) == r < Len(d) /\ d[r + 1] # NoRow

\* data[r]?.[c]
Cell(d, r, c) == IF HasRow(d, r) THEN At(d[r + 1], c) ELSE Undefined

\* a merge range {s: {r, c}, e: {r, c}}
Merge(startRow, endRow, startCol, endCol) ==
    [s |-> [r |-> startRow, c |-> startCol], e |-> [r |-> endRow, c |-> endCol]]

\* const sourceValue = data[startRow]?.[startCol] || ""
SourceValue(d, merge) ==
    IF Falsy(Cell(d, merge.s.r, merge.s.c)) THEN Str(<<>>)
    ELSE Cell(d, merge.s.r, merge.s.c)

\* row[c] = v: an index past the end lengthens the array and leaves holes
SetInRow(row, c, v) ==
    IF c < Len(row) THEN [row EXCEPT ![c + 1] = v]
    ELSE row \o [k \in 1..(c - Len(row)) |-> Undefined] \o <<v>>

\* data[r][c] = v, where data[r] is an array
SetCell(d, r, c, v) == [d EXCEPT ![r + 1] = SetInRow(d[r + 1], c, v)]

\* if (!data[row]) data[row] = []
EnsureRow(d, r) ==
    IF HasRow(d, r) THEN d
    ELSE IF r < Len(d) THEN [d EXCEPT ![r + 1] = <<>>]
    ELSE d \o [k \in 1..(r - Len(d)) |-> NoRow] \o << <<>> >>

\* the loop of lines 77-81: the quantity cells of the rows after the first
RECURSIVE ClearRows(_, _, _, _)
ClearRows(d, row, endRow, startCol) ==
    IF row > endRow THEN d
    ELSE ClearRows(IF HasRow(d, row) THEN SetCell(d, row, startCol, Str(<<>>)) ELSE d,
                   row + 1, endRow, startCol)

\* variant: the cell is written whatever it holds
MustFillAlways(c) == TRUE

\* !data[row][col] || data[row][col] === ""
MustFill(c) == Falsy(c) \/ c = Str(<<>>)

\* the loop of lines 88-92 on one row
RECURSIVE FillCols(_, _, _, _, _)
FillCols(d, row, col, endCol, sourceValue) ==
    IF col > endCol THEN d
    ELSE FillCols(IF MustFill(Cell(d, row, col))
                  THEN SetCell(d, row, col, sourceValue) ELSE d,
                  row, col + 1, endCol, sourceValue)

\* the loop of lines 86-93
RECURSIVE FillRows(_, _, _, _, _, _)
FillRows(d, row, endRow, startCol, endCol, sourceValue) ==
    IF row > endRow THEN d
    ELSE FillRows(FillCols(EnsureRow(d, row), row, startCol, endCol, sourceValue),
                  row + 1, endRow, startCol, endCol, sourceValue)

\* variant: a quantity range is filled like any other range
IsQuantityMergeNever(merge) == FALSE

\* if (startCol === 3)
IsQuantityMerge(merge) == merge.s.c = CtnCol

\* the body of the loop of line 65 for one merge range
ProcessMerge(d, merge) ==
    IF IsQuantityMerge(merge)
    THEN ClearRows(d, merge.s.r + 1, merge.e.r, merge.s.c)
    ELSE FillRows(d, merge.s.r, merge.e.r, merge.s.c, merge.e.c, SourceValue(d, merge))

----------------------------------------------------------------------------
\* The row scan (lines 152-257).

\* const isRowEmpty = !row || row.every(cell => !cell || String(cell).trim() === "")
IsRowEmpty(row) ==
    \/ row = NoRow
    \/ \A j \in 1..Len(row) : Falsy(row[j]) \/ Trim(ToString(row[j])) = <<>>

\* variant: the threshold two rows too high
StopScanLate(n) == n > EmptyRowLimit + 2

\* if (consecutiveEmptyRows > 10) break, tested after the increment
StopScan(n) == n > EmptyRowLimit

\* if (row.length < 4) continue
TooShort(row) == Len(row) < MinCells

\* variant: the skip condition without the tests of the raw text
SkipRowByValueOnly(row) ==
    \/ CtnValue(row) = 0
    \/ Falsy(At(row, CtnCol))

\* the skip condition of line 186
SkipRow(row) ==
    \/ CtnValue(row) = 0
    \/ Falsy(At(row, CtnCol))
    \/ Includes(CtnText(row), EqualsSign)
    \/ Includes(ToLowerCase(CtnText(row)), TotalWord)

\* reference1 && reference2
BothReferences(row) == Reference1(row) # <<>> /\ Reference2(row) # <<>>

\* variant: the warehouse code is looked at before the note
RuleWarehouseFirst(row) ==
    IF /\ Warehouse(row) # <<>>
       /\ Len(Warehouse(row)) <= ShortCodeLen
    THEN "warehouse"
    ELSE IF Includes(Note(row), UPS) THEN "ups"
    ELSE IF Includes(Note(row), SelfPickup)
         THEN (IF BothReferences(row) THEN "self" ELSE "selfDropped")
    ELSE IF Includes(Note(row), TruckDelivery) /\ Warehouse(row) # <<>>
         THEN (IF BothReferences(row) THEN "pd" ELSE "pdDropped")
    ELSE IF Includes(Note(row), TruckDelivery) /\ BothReferences(row)
         THEN "pdFallback"
    ELSE "unmatched"

\* variant: the truck-delivery rule without the test of the code's length
RuleTruckAnyLength(row) ==
    IF Includes(Note(row), UPS) THEN "ups"
    ELSE IF Includes(Note(row), SelfPickup)
         THEN (IF BothReferences(row) THEN "self" ELSE "selfDropped")
    ELSE IF Includes(Note(row), TruckDelivery) /\ Warehouse(row) # <<>>
         THEN (IF BothReferences(row) THEN "pd" ELSE "pdDropped")
    ELSE IF /\ Warehouse(row) # <<>>
            /\ Len(Warehouse(row)) <= ShortCodeLen
         THEN "warehouse"
    ELSE IF Includes(Note(row), TruckDelivery) /\ BothReferences(row)
         THEN "pdFallback"
    ELSE "unmatched"

\* variant: the fallback without the test of the note
RuleFallbackAnyNote(row) ==
    IF Includes(Note(row), UPS) THEN "ups"
    ELSE IF Includes(Note(row), SelfPickup)
         THEN (IF BothReferences(row) THEN "self" ELSE "selfDropped")
    ELSE IF /\ Includes(Note(row), TruckDelivery)
            /\ Warehouse(row) # <<>>
            /\ Len(Warehouse(row)) > ShortCodeLen
         THEN (IF BothReferences(row) THEN "pd" ELSE "pdDropped")
    ELSE IF /\ Warehouse(row) # <<>>
            /\ Len(Warehouse(row)) > 0
            /\ Len(Warehouse(row)) <= ShortCodeLen
         THEN "warehouse"
    ELSE IF BothReferences(row)
         THEN "pdFallback"
    ELSE "unmatched"

\* the if / else-if chain of lines 198-256, named by the branch it ends in
Rule(row) ==
    IF Includes(Note(row), UPS) THEN "ups"
    ELSE IF Includes(Note(row), SelfPickup)
         THEN (IF BothReferences(row) THEN "self" ELSE "selfDropped")
    ELSE IF /\ Includes(Note(row), TruckDelivery)
            /\ Warehouse(row) # <<>>
            /\ Len(Warehouse(row)) > ShortCodeLen
         THEN (IF BothReferences(row) THEN "pd" ELSE "pdDropped")
    ELSE IF /\ Warehouse(row) # <<>>
            /\ Len(Warehouse(row)) > 0
            /\ Len(Warehouse(row)) <= ShortCodeLen
         THEN "warehouse"
    ELSE IF Includes(Note(row), TruckDelivery) /\ BothReferences(row)
         THEN "pdFallback"
    ELSE "unmatched"

\* what the body of the loop does with a row, up to the break: "empty",
\* "short", "skipped", or the branch of the classification
Outcome(row) ==
    IF IsRowEmpty(row) THEN "empty"
    ELSE IF TooShort(row) THEN "short"
    ELSE IF SkipRow(row) THEN "skipped"
    ELSE Rule(row)

\* the constants of one iteration (lines 157, 179-183) and its outcome
Extract(row) ==
    [reference1 |-> Reference1(row), reference2 |-> Reference2(row),
     ctnValue |-> CtnValue(row), warehouse |-> Warehouse(row),
     note |-> Note(row), outcome |-> Outcome(row)]

\* the path of an iteration, with n empty rows counted before it
Path(f, n) ==
    IF f.outcome = "empty" /\ StopScan(n + 1) THEN "break" ELSE f.outcome

SkippedPaths == {"break", "empty", "short", "skipped"}

\* warehouseSummary[key] = (warehouseSummary[key] || 0) + ctnValue
AddWarehouse(ws, key, ctn) ==
    IF \E k \in 1..Len(ws) : ws[k].warehouse = key
    THEN [k \in 1..Len(ws) |->
            IF ws[k].warehouse = key
            THEN [ws[k] EXCEPT !.ctn = (IF @ = 0 THEN 0 ELSE @) + ctn]
            ELSE ws[k]]
    ELSE Append(ws, [warehouse |-> key, ctn |-> 0 + ctn])

\* const key = `${type}_${reference1}_${reference2}`
DetailKey(type, reference1, reference2) ==
    type \o Underscore \o reference1 \o Underscore \o reference2

\* if (referenceDetailsMap[key]) ...ctn += ctnValue; else referenceDetailsMap[key] = {...}
AddReference(rm, type, reference1, reference2, ctn) ==
    LET key == DetailKey(type, reference1, reference2) IN
    IF \E k \in 1..Len(rm) : rm[k].key = key
    THEN [k \in 1..Len(rm) |->
            IF rm[k].key = key THEN [rm[k] EXCEPT !.ctn = @ + ctn] ELSE rm[k]]
    ELSE Append(rm, [key |-> key, type |-> type, reference1 |-> reference1,
                     reference2 |-> reference2, ctn |-> ctn])

\* lines 198-201 and 234-237
WarehouseAfter(f, ws, path) ==
    IF path = "ups" THEN AddWarehouse(ws, UPS, f.ctnValue)
    ELSE IF path = "warehouse" THEN AddWarehouse(ws, f.warehouse, f.ctnValue)
    ELSE ws

\* lines 202-233 and 238-252
ReferencesAfter(f, rm, path) ==
    IF path = "self"
    THEN AddReference(rm, SelfType, f.reference1, f.reference2, f.ctnValue)
    ELSE IF path \in {"pd", "pdFallback"}
    THEN AddReference(rm, PDType, f.reference1, f.reference2, f.ctnValue)
    ELSE rm

\* totalCtn += ctnValue, line 195, before the classification
TotalAfter(f, total, path) ==
    IF path \in SkippedPaths THEN total ELSE total + f.ctnValue

----------------------------------------------------------------------------
\* After the loop (lines 259-285): sort, materialize, return.

\* a.warehouse.localeCompare(b.warehouse), on codes made of digits and
\* upper-case letters: digits collate before letters.
CollationOrder == Digits \o UpperCase

RECURSIVE localeCompare(_, _)
localeCompare(a, b) ==
    IF a = <<>> /\ b = <<>> THEN 0
    ELSE IF a = <<>> THEN 0 - 1
    ELSE IF b = <<>> THEN 1
    ELSE IF Head(a) = Head(b) THEN localeCompare(Tail(a), Tail(b))
    ELSE IF IndexOf(CollationOrder, Head(a)) < IndexOf(CollationOrder, Head(b))
         THEN 0 - 1
    ELSE 1

\* variant: a comparator that orders "UPS" like any other code
CompareAlphabetical(a, b) == localeCompare(a.warehouse, b.warehouse)

\* the comparator of lines 266-271
Compare(a, b) ==
    IF a.warehouse = UPS THEN 1
    ELSE IF b.warehouse = UPS THEN 0 - 1
    ELSE localeCompare(a.warehouse, b.warehouse)

RECURSIVE InsertSorted(_, _)
InsertSorted(x, s) ==
    IF s = <<>> THEN <<x>>
    ELSE IF Compare(x, Head(s)) < 0 THEN <<x>> \o s
    ELSE <<Head(s)>> \o InsertSorted(x, Tail(s))

\* Array.prototype.sort with the comparator (stable)
RECURSIVE Sort(_)
Sort(s) ==
    IF s = <<>> THEN <<>>
    ELSE InsertSorted(s[Len(s)], Sort(SubSeq(s, 1, Len(s) - 1)))

\* Object.entries(warehouseSummary).map(...).sort(...)
WarehouseSummaryArray(ws) ==
    Sort([k \in 1..Len(ws) |->
            [warehouse |-> ws[k].warehouse, ctn |-> ws[k].ctn, skid |-> <<>>]])

\* variant: the entries are listed from the last created to the first
ReferenceDetailsReversed(rm) ==
    [k \in 1..Len(rm) |->
        [type |-> rm[Len(rm) + 1 - k].type,
         reference1 |-> rm[Len(rm) + 1 - k].reference1,
         reference2 |-> rm[Len(rm) + 1 - k].reference2,
         ctn |-> rm[Len(rm) + 1 - k].ctn]]

\* Object.values(referenceDetailsMap)
ReferenceDetails(rm) ==
    [k \in 1..Len(rm) |->
        [type |-> rm[k].type, reference1 |-> rm[k].reference1,
         reference2 |-> rm[k].reference2, ctn |-> rm[k].ctn]]

NoResult ==
    [containerNumber |-> <<>>, total |-> 0,
     warehouseSummary |-> <<>>, referenceDetails |-> <<>>]

Materialize ==
    /\ pc = "post" \/ (pc = "scan" /\ i >= dataLen)
    /\ pc' = "done"
    /\ result' = [containerNumber |-> containerNumber,
                  total |-> totalCtn,
                  warehouseSummary |-> WarehouseSummaryArray(warehouseSummary),
                  referenceDetails |-> ReferenceDetails(referenceDetailsMap)]
    /\ UNCHANGED <<gridVars, dataLen, scanVars, workbook, callVars, handlerVars>>

----------------------------------------------------------------------------
\* generateOutputExcel (lines 288-494): the values of the cells, row by row.
\* The upload handler calls it with what processExcelData returned (line 543).

Text(t) == Str(t)

TotalLabel == Text(<<"T", "o", "t", "a", "l">>)
DateLabel == Text(<<"D", "a", "t", "e", ":">>)
\* new Date().toLocaleDateString()
Today == Text(<<"t", "o", "d", "a", "y">>)
SubTotalLabel == Text(<<"S", "U", "B", "-", "T", "O", "T", "A", "L">>)
WareHouseLabel == Text(<<"W", "a", "r", "e", " ", "H", "o", "u", "s", "e">>)
CtnLabel == Text(<<"C", "T", "N">>)
SkidLabel == Text(<<"S", "k", "i", "d">>)
TypeLabel == Text(<<"T", "y", "p", "e">>)
Reference1Label == Text(<<"R", "e", "f", "e", "r", "e", "n", "c", "e", "1">>)
Reference2Label == Text(<<"R", "e", "f", "e", "r", "e", "n", "c", "e", "2">>)

HeaderNumbers == 24

\* the accumulation of lines 344 and 351, entry by entry
RECURSIVE SubTotal(_, _)
SubTotal(items, acc) ==
    IF items = <<>> THEN acc ELSE SubTotal(Tail(items), acc + Head(items).ctn)

\* variant: the total of the summary is written instead of the sum
TotalOfSummary(processedData) == processedData.total

\* const grandTotal = warehouseSubTotal + referenceDetailsSubTotal
GrandTotal(processedData) ==
    SubTotal(processedData.warehouseSummary, 0)
      + SubTotal(processedData.referenceDetails, 0)

\* row.values = [item.warehouse, item.ctn, item.skid || '']
SummaryRow(item) == <<Text(item.warehouse), Num(item.ctn), Text(item.skid)>>

\* row.values = [ref.type, ref.reference1, ref.reference2, ref.ctn]
DetailRow(ref) ==
    <<Text(ref.type), Text(ref.reference1), Text(ref.reference2), Num(ref.ctn)>>

\* variant: the section of the details ends at its header row when there is
\* no reference entry
GenerateOutputExcelDetailsIfAny(processedData) ==
    LET n == Len(processedData.warehouseSummary)
        m == Len(processedData.referenceDetails)
    IN  << <<TotalLabel, Num(GrandTotal(processedData)), DateLabel, Today>>,
           <<WareHouseLabel, CtnLabel, SkidLabel>>
             \o [k \in 1..HeaderNumbers |-> Num(k)] >>
        \o [k \in 1..n |-> SummaryRow(processedData.warehouseSummary[k])]
        \o << <<SubTotalLabel, Num(SubTotal(processedData.warehouseSummary, 0))>>,
              <<>>,
              <<TypeLabel, Reference1Label, Reference2Label, CtnLabel>> >>
        \o [k \in 1..m |-> DetailRow(processedData.referenceDetails[k])]
        \o (IF m = 0 THEN <<>>
            ELSE << <<SubTotalLabel, Text(<<>>), Text(<<>>),
                      Num(SubTotal(processedData.referenceDetails, 0))>> >>)

GenerateOutputExcel(processedData) ==
    LET n == Len(processedData.warehouseSummary)
        m == Len(processedData.referenceDetails)
    IN  << <<TotalLabel, Num(GrandTotal(processedData)), DateLabel, Today>>,
           <<WareHouseLabel, CtnLabel, SkidLabel>>
             \o [k \in 1..HeaderNumbers |-> Num(k)] >>
        \o [k \in 1..n |-> SummaryRow(processedData.warehouseSummary[k])]
        \o << <<SubTotalLabel, Num(SubTotal(processedData.warehouseSummary, 0))>>,
              <<>>,
              <<TypeLabel, Reference1Label, Reference2Label, CtnLabel>> >>
        \o [k \in 1..m |-> DetailRow(processedData.referenceDetails[k])]
        \o << <<SubTotalLabel, Text(<<>>), Text(<<>>),
                Num(SubTotal(processedData.referenceDetails, 0))>> >>

\* const outputBuffer = await generateOutputExcel(processedData)
WriteWorkbook ==
    /\ pc = "done"
    /\ workbook' = GenerateOutputExcel(result)
    /\ pc' = "written"
    /\ UNCHANGED <<gridVars, dataLen, scanVars, result, callVars, handlerVars>>

----------------------------------------------------------------------------
\* What the claims call a fully-empty row: every cell is empty or white space.

IsBlankCell(c) == c.k = "undef" \/ (c.k = "str" /\ Trim(c.s) = <<>>)
IsBlankRow(row) == \A j \in 1..Len(row) : IsBlankCell(row[j])

----------------------------------------------------------------------------
\* The sheets the scan is run on.

E == Str(<<>>)

\* a row of 14 cells (columns A to N) with the five fields the scan reads
MkRow(reference1, reference2, ctn, warehouse, note) ==
    <<reference1, E, reference2, ctn, E, E, E, E, E, E, E, E, warehouse, note>>

R1 == Str(<<"R", "1">>)
R2 == Str(<<"R", "2">>)
YYZ3 == Str(<<"Y", "Y", "Z", "3">>)
ANY5 == Str(<<"A", "N", "Y", "5">>)
LONGCODE == Str(<<"L", "O", "N", "G", "C", "O", "D", "E">>)
UPSExpress == Str(UPS \o <<" ", "E", "x", "p", "r", "e", "s", "s">>)

\* (reference1, reference2); the last two pairs give the same key text
ReferencePairs ==
    << <<R1, R2>>, <<E, R2>>, <<R1, E>>,
       <<Str(<<"A", "_", "B">>), Str(<<"C">>)>>,
       <<Str(<<"A">>), Str(<<"B", "_", "C">>)>> >>

WarehouseCells == <<E, YYZ3, ANY5, LONGCODE>>

NoteCells == <<E, UPSExpress, Str(SelfPickup), Str(TruckDelivery)>>

\* quantity cells: text and numbers, valid and not
CtnCells ==
    << E, Str(<<" ">>), Num(0), Str(<<"a", "b", "c">>),
       Str(<<"7">>), Num(3), Str(<<" ", "1", "0">>),
       Str(<<"-", "5">>), Num(0 - 2),
       Str(<<"5", " ", "T", "o", "t", "a", "l">>),
       Str(<<"2", "=", "2">>) >>

\* every reference pair, warehouse and note, with the quantity "7"
ClassificationRows ==
    [k \in 1..(Len(ReferencePairs) * Len(WarehouseCells) * Len(NoteCells)) |->
        LET n == (k - 1) % Len(NoteCells)
            w == ((k - 1) \div Len(NoteCells)) % Len(WarehouseCells)
            r == (k - 1) \div (Len(NoteCells) * Len(WarehouseCells))
        IN  MkRow(ReferencePairs[r + 1][1], ReferencePairs[r + 1][2],
                  Str(<<"7">>), WarehouseCells[w + 1], NoteCells[n + 1])]

\* notes that carry two markers, or a marker in another letter case
MixedRows ==
    << MkRow(R1, R2, Str(<<"7">>), YYZ3, Str(UPS \o <<" ">> \o SelfPickup)),
       MkRow(R1, R2, Str(<<"7">>), LONGCODE, Str(TruckDelivery \o UPS)),
       MkRow(R1, R2, Str(<<"7">>), LONGCODE, Str(SelfPickup \o TruckDelivery)),
       MkRow(R1, R2, Str(<<"7">>), E, Str(<<"u", "p", "s">>)) >>

\* every quantity cell, in a row of each of two classes
QuantityRows ==
    [k \in 1..Len(CtnCells) |-> MkRow(R1, R2, CtnCells[k], YYZ3, E)] \o
    [k \in 1..Len(CtnCells) |-> MkRow(R1, R2, CtnCells[k], LONGCODE, Str(SelfPickup))]

EmptyRow == MkRow(E, E, E, E, E)
SpaceRow == MkRow(E, Str(<<" ">>), E, E, E)
ZeroRow == MkRow(E, E, Num(0), E, E)
ShortRow == <<R1, E, R2>>
FourCellRow == <<R1, E, R2, Num(3)>>
ValidRow == MkRow(R1, R2, Str(<<"7">>), YYZ3, E)
\* a row that no rule matches, with a quantity below zero
NegativeUnmatchedRow == MkRow(R1, R2, Str(<<"-", "7">>), LONGCODE, E)

OtherRows ==
    << <<>>, EmptyRow, SpaceRow, ZeroRow, ShortRow, FourCellRow, ValidRow,
       NegativeUnmatchedRow >>

\* the rows a sheet is made of, numbered
RowTable == ClassificationRows \o MixedRows \o QuantityRows \o OtherRows

\* what the scan extracts from each
Extracted == [k \in 1..Len(RowTable) |-> Extract(RowTable[k])] \o <<>>

Blank == [k \in 1..Len(RowTable) |-> IsBlankRow(RowTable[k])] \o <<>>

RowIds == 1..Len(RowTable)
LongRowIds ==
    { k \in (Len(RowTable) - Len(OtherRows) + 1)..Len(RowTable) :
        RowTable[k] \in {EmptyRow, SpaceRow, ZeroRow, ShortRow, ValidRow} }

----------------------------------------------------------------------------
\* No request has reached the upload handler: the storage as constructed
\* (MemStorage, constructor) and an empty directory.

NoUpload ==
    /\ uploads = <<>>
    /\ files = <<>>
    /\ currentId = 1
    /\ disk = <<>>
    /\ now = 0

----------------------------------------------------------------------------
\* One iteration of the for loop of line 153 on the row data[i]; f is what
\* the iteration extracts from the row.

Iteration(row, f, blank) ==
    LET path == Path(f, consecutiveEmptyRows) IN
    /\ pc = "scan"
    /\ i < dataLen
    /\ path \in SkippedPaths \/ counted < MaxCounted
    /\ cur' = row
    /\ branch' = path
    /\ consecutiveEmptyRows' =
         IF path \in {"break", "empty"} THEN consecutiveEmptyRows + 1 ELSE 0
    /\ pc' = IF path = "break" THEN "post" ELSE "scan"
    /\ i' = IF path = "break" THEN i ELSE i + 1
    /\ warehouseSummary' = WarehouseAfter(f, warehouseSummary, path)
    /\ referenceDetailsMap' = ReferencesAfter(f, referenceDetailsMap, path)
    /\ totalCtn' = TotalAfter(f, totalCtn, path)
    /\ blankRun' = IF blank THEN blankRun + 1 ELSE 0
    /\ seenRun' = (seenRun \/ (blank /\ blankRun + 1 >= EmptyRowLimit))
    /\ counted' = IF path \in SkippedPaths THEN counted ELSE counted + 1
    /\ landedSum' =
         IF /\ warehouseSummary' = warehouseSummary
            /\ referenceDetailsMap' = referenceDetailsMap
         THEN landedSum
         ELSE landedSum + ParseInt(CtnText(row)).n
    /\ droppedRows' =
         IF /\ path \notin SkippedPaths
            /\ warehouseSummary' = warehouseSummary
            /\ referenceDetailsMap' = referenceDetailsMap
         THEN droppedRows + 1
         ELSE droppedRows
    /\ droppedSum' =
         IF droppedRows' = droppedRows
         THEN droppedSum
         ELSE droppedSum + ParseInt(CtnText(row)).n
    /\ UNCHANGED <<gridVars, dataLen, result, workbook, callVars, handlerVars>>

\* the iteration on a row of the numbered table, drawn when it is read
ScanRow(k) == Iteration(RowTable[k], Extracted[k], Blank[k])

----------------------------------------------------------------------------
\* The state at line 152, before the first iteration: the scan starts at
\* dataStartRow, which is 1 or more after a header row and 2 without one.
\* The rows are drawn from the table as the loop reads them, so the grid is
\* not held in the state; no container number was found.

StartRows == {1, 2}

InitScan(maxRows) ==
    /\ pc = "scan"
    /\ sheet = <<>>
    /\ merges = <<>>
    /\ mergeIx = 0
    /\ data = <<>>
    /\ containerNumber = <<>>
    /\ i \in StartRows
    /\ dataStartRow = i
    /\ dataLen \in 0..(i + maxRows)
    /\ consecutiveEmptyRows = 0
    /\ warehouseSummary = <<>>
    /\ referenceDetailsMap = <<>>
    /\ totalCtn = 0
    /\ cur = <<>>
    /\ branch = "none"
    /\ result = NoResult
    /\ workbook = <<>>
    /\ run = 1
    /\ first = NoResult
    /\ blankRun = 0
    /\ seenRun = FALSE
    /\ counted = 0
    /\ landedSum = 0
    /\ droppedRows = 0
    /\ droppedSum = 0
    /\ NoUpload

Init == InitScan(MaxRows)

Next ==
    \/ \E k \in RowIds : ScanRow(k)
    \/ Materialize

Spec == Init /\ [][Next]_vars

\* the row scan after one header row, and the workbook of what it returns
InitBook == InitScan(MaxRows) /\ i = 1

NextBook ==
    \/ \E k \in RowIds : ScanRow(k)
    \/ Materialize
    \/ WriteWorkbook

SpecBook == InitBook /\ [][NextBook]_vars

\* long data regions over few kinds of row
InitLong == InitScan(MaxLongRows) /\ i = 1

NextLong ==
    \/ \E k \in LongRowIds : ScanRow(k)
    \/ Materialize

SpecLong == InitLong /\ [][NextLong]_vars

----------------------------------------------------------------------------
\* The loop of line 65, one merge range at a time, and the return of line 97.

UnmergeRegion ==
    /\ pc = "unmerge"
    /\ mergeIx < Len(merges)
    /\ data' = ProcessMerge(data, merges[mergeIx + 1])
    /\ mergeIx' = mergeIx + 1
    /\ dataLen' = Len(data')
    /\ UNCHANGED <<pc, sheet, merges, containerNumber, dataStartRow, scanVars,
                   result, workbook, callVars, handlerVars>>

UnmergeReturn ==
    /\ pc = "unmerge"
    /\ mergeIx >= Len(merges)
    /\ pc' = "container"
    /\ UNCHANGED <<gridVars, dataLen, scanVars, result, workbook, callVars, handlerVars>>

\* the state when unmergeAndFillCells has read the worksheet (line 59)
InitSheet(grids, mergeLists) ==
    /\ pc = "unmerge"
    /\ sheet \in grids
    /\ merges \in mergeLists
    /\ mergeIx = 0
    /\ data = sheet
    /\ containerNumber = <<>>
    /\ dataStartRow = 0 - 1
    /\ dataLen = Len(sheet)
    /\ i = 0
    /\ consecutiveEmptyRows = 0
    /\ warehouseSummary = <<>>
    /\ referenceDetailsMap = <<>>
    /\ totalCtn = 0
    /\ cur = <<>>
    /\ branch = "none"
    /\ result = NoResult
    /\ workbook = <<>>
    /\ run = 1
    /\ first = NoResult
    /\ blankRun = 0
    /\ seenRun = FALSE
    /\ counted = 0
    /\ landedSum = 0
    /\ droppedRows = 0
    /\ droppedSum = 0
    /\ NoUpload

----------------------------------------------------------------------------
\* The container number (lines 104-120).

Min(a, b) == IF a < b THEN a ELSE b

\* data[i]?.length || 0
RowLength(d, r) == IF HasRow(d, r) THEN Len(d[r + 1]) ELSE 0

\* data[i]?.[j]?.toString() || ""
CellText(d, r, c) ==
    IF Cell(d, r, c).k \in {"undef", "norow"} THEN <<>> ELSE ToString(Cell(d, r, c))

\* [A-Z]{4}\d{7,} matches at position p of the text
ContainerAt(t, p) ==
    /\ p + ContainerLetters + ContainerDigits - 1 <= Len(t)
    /\ \A k \in 0..(ContainerLetters - 1) : Occurs(UpperCase, t[p + k])
    /\ \A k \in ContainerLetters..(ContainerLetters + ContainerDigits - 1) :
         Occurs(Digits, t[p + k])

\* the end of the run of digits that starts at position p
RECURSIVE DigitRunEnd(_, _)
DigitRunEnd(t, p) ==
    IF p + 1 <= Len(t) /\ Occurs(Digits, t[p + 1]) THEN DigitRunEnd(t, p + 1) ELSE p

\* cellValue.match(/([A-Z]{4}\d{7,})/): match[1] of the leftmost match, <<>>
\* when there is none
ContainerMatch(t) ==
    IF \E p \in 1..Len(t) : ContainerAt(t, p)
    THEN LET p == CHOOSE q \in 1..Len(t) :
                    ContainerAt(t, q) /\ \A o \in 1..(q - 1) : ~ContainerAt(t, o)
         IN  SubSeq(t, p, DigitRunEnd(t, p + ContainerLetters))
    ELSE <<>>

\* variant: every row of the grid is searched
AllRows(d) == Len(d)

\* Math.min(5, data.length)
ContainerWindowRows(d) == Min(ContainerRows, Len(d))

\* Math.min(15, data[i]?.length || 0)
ContainerWindowCols(d, r) == Min(ContainerCols, RowLength(d, r))

\* the inner loop of line 107, from column j
RECURSIVE ScanContainerRow(_, _, _)
ScanContainerRow(d, r, j) ==
    IF j >= ContainerWindowCols(d, r) THEN <<>>
    ELSE LET match == ContainerMatch(CellText(d, r, j)) IN
         IF match # <<>> THEN match ELSE ScanContainerRow(d, r, j + 1)

\* the outer loop of line 106, from row r
RECURSIVE ScanContainer(_, _)
ScanContainer(d, r) ==
    IF r >= ContainerWindowRows(d) THEN <<>>
    ELSE LET found == ScanContainerRow(d, r, 0) IN
         IF found # <<>> THEN found ELSE ScanContainer(d, r + 1)

FindContainer ==
    /\ pc = "container"
    /\ containerNumber' = ScanContainer(data, 0)
    /\ pc' = "header"
    /\ UNCHANGED <<sheet, merges, mergeIx, data, dataStartRow, dataLen, scanVars,
                   result, workbook, callVars, handlerVars>>

----------------------------------------------------------------------------
\* The header row and the start of the data (lines 129-153).

CtnWord == <<"c", "t", "n">>
CartonCount == <<"U+7BB1", "U+6570">>

\* row[j]?.toString().toLowerCase() || "", then the test of line 136
IsHeaderCell(c) ==
    /\ c.k # "undef"
    /\ LET cellValue == ToLowerCase(ToString(c)) IN
       Includes(cellValue, CtnWord) \/ Includes(cellValue, CartonCount)

\* the loop of line 134 on one row
RowHasHeader(row) == \E j \in 1..Len(row) : IsHeaderCell(row[j])

\* variant: the data start at the header row itself
HeaderRowItself(r) == r

\* dataStartRow = i + 1
AfterHeader(r) == r + 1

\* the loop of line 131 from row r: the data start row, -1 when no row has a
\* header cell, "threw" when data[i] is undefined (row.length throws)
RECURSIVE HeaderSearch(_, _)
HeaderSearch(d, r) ==
    IF r >= Len(d) THEN [threw |-> FALSE, start |-> 0 - 1]
    ELSE IF ~HasRow(d, r) THEN [threw |-> TRUE, start |-> 0 - 1]
    ELSE IF RowHasHeader(d[r + 1]) THEN [threw |-> FALSE, start |-> AfterHeader(r)]
    ELSE HeaderSearch(d, r + 1)

\* lines 130-152: the search, the fallback, and the first value of the loop index
FindHeader ==
    LET h == HeaderSearch(data, 0) IN
    /\ pc = "header"
    /\ pc' = IF h.threw THEN "threw" ELSE "scan"
    /\ dataStartRow' = IF h.threw THEN dataStartRow
                       ELSE IF h.start = 0 - 1 THEN NoHeaderStart
                       ELSE h.start
    /\ i' = IF h.threw THEN i ELSE dataStartRow'
    /\ UNCHANGED <<sheet, merges, mergeIx, data, containerNumber, dataLen,
                   consecutiveEmptyRows, warehouseSummary, referenceDetailsMap,
                   totalCtn, cur, branch, blankRun, seenRun, counted, landedSum,
                   droppedRows, droppedSum, result, workbook, callVars, handlerVars>>

\* the iteration of line 153 on the row data[i] of the grid
ScanData ==
    /\ pc = "scan"
    /\ i < Len(data)
    /\ Iteration(data[i + 1], Extract(data[i + 1]),
                 data[i + 1] = NoRow \/ IsBlankRow(data[i + 1]))

----------------------------------------------------------------------------
\* Worksheets with merge ranges: two rows of five cells (columns A to E),
\* and ranges inside the rows, across the quantity column, over one another
\* and past the last row.

AnchorCells == {E, Str(<<"x">>), Num(0)}
CoveredCells == {E, Str(<<"y">>), Num(0)}

MergeGrids ==
    { << <<R1, E, a2, q0, a4>>, <<E, E, b2, q1, b4>> >> :
        a2 \in AnchorCells, a4 \in AnchorCells, q0 \in {E, Num(5)},
        b2 \in CoveredCells, b4 \in CoveredCells, q1 \in {E, Num(4)} }

MergeRanges ==
    { Merge(0, 1, 4, 4), Merge(1, 1, 2, 4), Merge(0, 0, 2, 4), Merge(0, 2, 2, 2),
      Merge(0, 1, 3, 3), Merge(0, 2, 3, 4), Merge(3, 3, 0, 1) }

RECURSIVE ListsUpTo(_, _)
ListsUpTo(S, n) ==
    IF n = 0 THEN { <<>> }
    ELSE ListsUpTo(S, n - 1) \cup
         { Append(l, x) : l \in { t \in ListsUpTo(S, n - 1) : Len(t) = n - 1 }, x \in S }

InitMerge == InitSheet(MergeGrids, ListsUpTo(MergeRanges, MaxMerges))

NextMerge ==
    \/ UnmergeRegion
    \/ UnmergeReturn

SpecMerge == InitMerge /\ [][NextMerge]_vars

----------------------------------------------------------------------------
\* Worksheets for the whole of processExcelData: rows of sixteen cells
\* (columns A to P), after zero, four or five leading rows of text.

\* a row with the fields the scan reads and the two cells after the note
WideRow(reference1, reference2, ctn, warehouse, note, o, p) ==
    MkRow(reference1, reference2, ctn, warehouse, note) \o <<o, p>>

OOCU == Str(<<"N", "o", ".", " ", "O", "O", "C", "U", "8", "1", "8", "6",
              "1", "3", "0", " ", "x">>)
TGHU == Str(<<"T", "G", "H", "U", "7", "6", "5", "4", "3", "2", "1">>)
XMSKU == Str(<<"X", "M", "S", "K", "U", "1", "2", "3", "4", "5", "6", "7", "8">>)
NearCode == Str(<<"A", "B", "C", "1", "2", "3", "4", "5", "6", "7", " ",
                  "a", "b", "c", "d", "1", "2", "3", "4", "5", "6", "7", " ",
                  "A", "B", "C", "D", "1", "2", "3", "4", "5", "6">>)
CtnHeader == Str(CartonCount \o <<"C", "T", "N">>)
CartonHeader == Str(CartonCount)
CtnsNote == Str(<<"2", " ", "c", "t", "n", "s">>)

\* leading text, without a container number or a header word
TextRow == WideRow(Str(<<"L", "i", "s", "t">>), E, E, E, E, E, E)

SheetRows ==
    << \* a title row with a container number in its first cell
       WideRow(OOCU, E, E, E, E, E, E),
       \* container numbers in the columns O (index 14) and P (index 15)
       WideRow(NearCode, E, E, E, E, TGHU, XMSKU),
       \* a container number in column P only, in a row that is a line item
       WideRow(R1, R2, Str(<<"7">>), YYZ3, E, E, XMSKU),
       \* header rows
       WideRow(E, E, CtnHeader, E, E, E, E),
       WideRow(E, CartonHeader, E, E, E, E, E),
       \* line items; the note of the last one holds "ctn"
       WideRow(R1, R2, Str(<<"7">>), YYZ3, E, E, E),
       WideRow(R1, R2, Num(3), E, Str(SelfPickup), E, E),
       WideRow(R1, R2, Num(2), ANY5, CtnsNote, E, E) >>

LeadingRows == { [k \in 1..4 |-> TextRow], [k \in 1..5 |-> TextRow] }

SheetsAfter(leads) ==
    { lead \o [k \in 1..Len(l) |-> SheetRows[l[k]]] :
        lead \in leads, l \in ListsUpTo(1..Len(SheetRows), MaxSheetRows) }

\* no merge range; a reference and a quantity merged over two rows; a range
\* that lies two rows below the last row of every sheet
SheetMerges ==
    { <<>>,
      << Merge(0, 1, 0, 0), Merge(0, 1, 3, 3) >>,
      << Merge(MaxSheetRows + 7, MaxSheetRows + 7, 0, 0) >> }

\* the sheets with leading rows have no merge range
InitWhole ==
    \/ InitSheet(SheetsAfter({ <<>> }), SheetMerges)
    \/ InitSheet(SheetsAfter(LeadingRows), { <<>> })

NextWhole ==
    \/ UnmergeRegion
    \/ UnmergeReturn
    \/ FindContainer
    \/ FindHeader
    \/ ScanData
    \/ Materialize

SpecSheet == InitWhole /\ [][NextWhole]_vars

----------------------------------------------------------------------------
\* A second call of processExcelData on the same worksheet.  The call reads
\* the worksheet again (line 56: sheet_to_json builds new arrays, so the
\* writes of the first call into its grid are not seen) and creates its own
\* locals (lines 105, 122-124, 130, 152).

\* variant: the accumulators outlive the call
AccumulatorsKept(old) == old

\* const warehouseSummary = {}; const referenceDetailsMap = {}; let totalCtn = 0
AccumulatorsAtEntry(old) ==
    [warehouseSummary |-> <<>>, referenceDetailsMap |-> <<>>, totalCtn |-> 0]

CallAgain ==
    LET acc == AccumulatorsAtEntry(
                 [warehouseSummary |-> warehouseSummary,
                  referenceDetailsMap |-> referenceDetailsMap,
                  totalCtn |-> totalCtn])
    IN
    /\ pc = "done"
    /\ run = 1
    /\ run' = 2
    /\ first' = result
    /\ pc' = "unmerge"
    /\ data' = sheet
    /\ mergeIx' = 0
    /\ containerNumber' = <<>>
    /\ dataStartRow' = 0 - 1
    /\ dataLen' = Len(sheet)
    /\ i' = 0
    /\ consecutiveEmptyRows' = 0
    /\ warehouseSummary' = acc.warehouseSummary
    /\ referenceDetailsMap' = acc.referenceDetailsMap
    /\ totalCtn' = acc.totalCtn
    /\ cur' = <<>>
    /\ branch' = "none"
    /\ blankRun' = 0
    /\ seenRun' = FALSE
    /\ counted' = 0
    /\ landedSum' = 0
    /\ droppedRows' = 0
    /\ droppedSum' = 0
    /\ UNCHANGED <<sheet, merges, result, workbook, handlerVars>>

\* the sheets without leading rows, each processed twice
InitTwice == InitSheet(SheetsAfter({ <<>> }), SheetMerges)

NextTwice ==
    \/ UnmergeRegion
    \/ UnmergeReturn
    \/ FindContainer
    \/ FindHeader
    \/ ScanData
    \/ Materialize
    \/ CallAgain

SpecTwice == InitTwice /\ [][NextTwice]_vars

----------------------------------------------------------------------------
\* Vocabulary of the claims, stated on the row and on the buckets.

\* a step of the row scan: one more row has been read into cur
ScanStep == pc = "scan" /\ pc' # "done"

\* the raw text of the quantity cell and the integer it parses to
QuantityText(row) == CtnText(row)
Quantity(row) == ParseInt(QuantityText(row))

\* the quantity cell is empty, unparseable, or parses to an integer <= 0
QuantityNotPositive(row) ==
    \/ At(row, CtnCol).k = "undef"
    \/ QuantityText(row) = <<>>
    \/ Quantity(row).nan
    \/ Quantity(row).n <= 0

\* the quantity text holds "=" or "total" in any letter case
FormulaOrTotal(row) ==
    \/ Includes(QuantityText(row), EqualsSign)
    \/ Includes(ToLowerCase(QuantityText(row)), TotalWord)

\* the row passes the skip policy
Surviving(row) ==
    /\ Len(row) >= 4
    /\ ~IsBlankRow(row)
    /\ ~Quantity(row).nan
    /\ Quantity(row).n # 0
    /\ ~FormulaOrTotal(row)

HasWarehouse(ws, key) == \E k \in 1..Len(ws) : ws[k].warehouse = key

\* the carton count of a destination bucket, 0 when there is none
WarehouseCtn(ws, key) ==
    IF HasWarehouse(ws, key)
    THEN ws[CHOOSE k \in 1..Len(ws) : ws[k].warehouse = key].ctn
    ELSE 0

\* the destination buckets other than key
OtherWarehouses(ws, key) ==
    { <<ws[k].warehouse, ws[k].ctn>> : k \in { j \in 1..Len(ws) : ws[j].warehouse # key } }

IsDetail(e, type, reference1, reference2) ==
    e.type = type /\ e.reference1 = reference1 /\ e.reference2 = reference2

HasDetail(rm, type, reference1, reference2) ==
    \E k \in 1..Len(rm) : IsDetail(rm[k], type, reference1, reference2)

\* the carton count of a category bucket, 0 when there is none
DetailCtn(rm, type, reference1, reference2) ==
    IF HasDetail(rm, type, reference1, reference2)
    THEN rm[CHOOSE k \in 1..Len(rm) :
                IsDetail(rm[k], type, reference1, reference2)].ctn
    ELSE 0

\* the category buckets other than (type, reference1, reference2)
OtherDetails(rm, type, reference1, reference2) ==
    { <<rm[k].type, rm[k].reference1, rm[k].reference2, rm[k].ctn>> :
        k \in { j \in 1..Len(rm) :
                  ~IsDetail(rm[j], type, reference1, reference2) } }

\* the step added the quantity of row to the destination bucket key and
\* changed no other bucket
AddedToWarehouse(row, key) ==
    /\ HasWarehouse(warehouseSummary', key)
    /\ WarehouseCtn(warehouseSummary', key) =
         WarehouseCtn(warehouseSummary, key) + Quantity(row).n
    /\ OtherWarehouses(warehouseSummary', key) = OtherWarehouses(warehouseSummary, key)
    /\ referenceDetailsMap' = referenceDetailsMap

\* the step added the quantity of row to the category bucket of its own
\* references and changed no other bucket
AddedToDetail(row, type) ==
    /\ HasDetail(referenceDetailsMap', type, Reference1(row), Reference2(row))
    /\ DetailCtn(referenceDetailsMap', type, Reference1(row), Reference2(row)) =
         DetailCtn(referenceDetailsMap, type, Reference1(row), Reference2(row))
           + Quantity(row).n
    /\ OtherDetails(referenceDetailsMap', type, Reference1(row), Reference2(row)) =
         OtherDetails(referenceDetailsMap, type, Reference1(row), Reference2(row))
    /\ warehouseSummary' = warehouseSummary

\* the step changed no bucket
NoBucketChanged ==
    /\ warehouseSummary' = warehouseSummary
    /\ referenceDetailsMap' = referenceDetailsMap

\* a < b in the order of the code units
CodeUnitOrder == Digits \o UpperCase

RECURSIVE LexLess(_, _)
LexLess(a, b) ==
    IF b = <<>> THEN FALSE
    ELSE IF a = <<>> THEN TRUE
    ELSE IF Head(a) = Head(b) THEN LexLess(Tail(a), Tail(b))
    ELSE IndexOf(CodeUnitOrder, Head(a)) < IndexOf(CodeUnitOrder, Head(b))

----------------------------------------------------------------------------
\* C1: the returned total is the sum of the quantities of exactly the rows
\* that landed in a destination or category bucket; a row dropped by the
\* classification adds nothing to it.
C1_TotalIsSumOfLandedRows ==
    pc = "done" => result.total = landedSum

\* C2: a row whose quantity cell is empty, unparseable or parses to an
\* integer <= 0 changes no destination bucket, no category bucket and not
\* the grand total.
C2_NonPositiveQuantityAddsNothing ==
    [][(ScanStep /\ QuantityNotPositive(cur')) => UNCHANGED aggregates]_vars

\* C3: a row with fewer than 4 cells, or whose quantity text holds "=" or
\* "total" in any letter case, changes no bucket and not the grand total,
\* also when the text starts with a positive integer.
C3_ShortOrFormulaRowsSkipped ==
    [][(ScanStep /\ (Len(cur') < 4 \/ FormulaOrTotal(cur')))
          => UNCHANGED aggregates]_vars

\* a row whose quantity text parses to a positive integer was skipped for
\* its "=" or its "total", after an earlier row was counted
C3_Witness ==
    /\ branch = "skipped"
    /\ Len(cur) >= 4
    /\ FormulaOrTotal(cur)
    /\ ~Quantity(cur).nan
    /\ Quantity(cur).n > 0
    /\ totalCtn > 0

\* C4: once 10 fully-empty rows have been read in a row, no later row changes
\* a bucket or the grand total.
C4_NoRowCountedAfterTenEmptyRows ==
    [][seenRun => UNCHANGED aggregates]_vars

\* C5: of 12 consecutive fully-empty rows the scan reads at most 11; with the
\* 11th it has left the loop, and neither the 12th row nor any row after the
\* run is read or changes a bucket or the grand total.
C5_ScanStopsInsideRunOfTwelve ==
    [][/\ blankRun' <= 11
       /\ blankRun = 11 => (pc # "scan" /\ UNCHANGED <<aggregates, cur, i>>)]_vars

\* the scan has returned after the 11th row of a run of fully-empty rows, with
\* a counted row before the run and two more rows of the sheet left unread
C5_Witness ==
    /\ pc = "done"
    /\ blankRun = 11
    /\ branch = "break"
    /\ dataLen >= i + 3
    /\ result.total > 0

C7_UpsNoteGoesToUpsBucket ==
    [][(ScanStep /\ Surviving(cur') /\ Includes(Note(cur'), UPS))
          => AddedToWarehouse(cur', UPS)]_vars

\* a row with note "UPS Express" and warehouse "ANY5" was added to "UPS",
\* and there is no "ANY5" bucket
C7_Witness ==
    /\ branch = "ups"
    /\ Note(cur) = UPSExpress.s
    /\ Warehouse(cur) = ANY5.s
    /\ WarehouseCtn(warehouseSummary, UPS) = Quantity(cur).n
    /\ ~HasWarehouse(warehouseSummary, ANY5.s)

\* C8: rule 2: a surviving row whose note contains the self-pickup marker and
\* not "UPS" is accumulated under the category bucket ("Self", reference1,
\* reference2) when both references are non-empty and lands in no bucket
\* otherwise; it never reaches a destination bucket.
C8_SelfPickupByReferences ==
    [][(/\ ScanStep
        /\ Surviving(cur')
        /\ ~Includes(Note(cur'), UPS)
        /\ Includes(Note(cur'), SelfPickup))
          => IF Reference1(cur') # <<>> /\ Reference2(cur') # <<>>
             THEN AddedToDetail(cur', SelfType)
             ELSE NoBucketChanged]_vars

\* C9: rule 3: a surviving row not matched by rules 1-2 whose note contains
\* the truck-delivery marker and whose warehouse code has more than 4
\* characters is accumulated under ("PD", reference1, reference2) when both
\* references are non-empty and is dropped otherwise; no destination bucket
\* is created or updated.
C9_TruckDeliveryLongCode ==
    [][(/\ ScanStep
        /\ Surviving(cur')
        /\ ~Includes(Note(cur'), UPS)
        /\ ~Includes(Note(cur'), SelfPickup)
        /\ Includes(Note(cur'), TruckDelivery)
        /\ Len(Warehouse(cur')) > 4)
          => IF Reference1(cur') # <<>> /\ Reference2(cur') # <<>>
             THEN AddedToDetail(cur', PDType)
             ELSE NoBucketChanged]_vars

\* C10: rule 4: a surviving row not matched by rules 1-3 whose warehouse code
\* is non-empty with at most 4 characters adds its quantity to the
\* destination bucket of that code and to no category bucket, also when its
\* note contains the truck-delivery marker.
C10_ShortCodeGoesToWarehouse ==
    [][(/\ ScanStep
        /\ Surviving(cur')
        /\ ~Includes(Note(cur'), UPS)
        /\ ~Includes(Note(cur'), SelfPickup)
        /\ ~(Includes(Note(cur'), TruckDelivery) /\ Len(Warehouse(cur')) > 4)
        /\ Warehouse(cur') # <<>>
        /\ Len(Warehouse(cur')) <= 4)
          => AddedToWarehouse(cur', Warehouse(cur'))]_vars

\* a row with warehouse "YYZ3", the truck-delivery marker in its note and
\* quantity 7 gave the bucket {"YYZ3", 7} and no category bucket
C10_Witness ==
    /\ branch = "warehouse"
    /\ Warehouse(cur) = YYZ3.s
    /\ Includes(Note(cur), TruckDelivery)
    /\ Quantity(cur).n = 7
    /\ warehouseSummary = <<[warehouse |-> YYZ3.s, ctn |-> 7]>>
    /\ referenceDetailsMap = <<>>

----------------------------------------------------------------------------
\* Rules 2 and 3 apart from the key text: the category bucket of a row is
\* found by the text type_reference1_reference2, which two different pairs
\* of references can share.

\* a bucket of other references already holds the key text of the row
KeyCollision(row, type) ==
    \E k \in 1..Len(referenceDetailsMap) :
        /\ referenceDetailsMap[k].key = DetailKey(type, Reference1(row), Reference2(row))
        /\ ~IsDetail(referenceDetailsMap[k], type, Reference1(row), Reference2(row))

\* rule 2 holds of every row whose key text no other references hold
SelfPickupWithoutCollision ==
    [][(/\ ScanStep
        /\ Surviving(cur')
        /\ ~Includes(Note(cur'), UPS)
        /\ Includes(Note(cur'), SelfPickup)
        /\ ~KeyCollision(cur', SelfType))
          => IF Reference1(cur') # <<>> /\ Reference2(cur') # <<>>
             THEN AddedToDetail(cur', SelfType)
             ELSE NoBucketChanged]_vars

\* rule 3 holds of every row whose key text no other references hold
TruckDeliveryWithoutCollision ==
    [][(/\ ScanStep
        /\ Surviving(cur')
        /\ ~Includes(Note(cur'), UPS)
        /\ ~Includes(Note(cur'), SelfPickup)
        /\ Includes(Note(cur'), TruckDelivery)
        /\ Len(Warehouse(cur')) > 4
        /\ ~KeyCollision(cur', PDType))
          => IF Reference1(cur') # <<>> /\ Reference2(cur') # <<>>
             THEN AddedToDetail(cur', PDType)
             ELSE NoBucketChanged]_vars

----------------------------------------------------------------------------
\* C11: rule 5: a surviving row matched by none of rules 1-4 is accumulated
\* under ("PD", reference1, reference2) if its note contains the
\* truck-delivery marker and both references are non-empty; in every other
\* case it changes no destination bucket and no category bucket.
C11_FallbackTruckDelivery ==
    [][(/\ ScanStep
        /\ Surviving(cur')
        /\ ~Includes(Note(cur'), UPS)
        /\ ~Includes(Note(cur'), SelfPickup)
        /\ ~(Includes(Note(cur'), TruckDelivery) /\ Len(Warehouse(cur')) > 4)
        /\ ~(Warehouse(cur') # <<>> /\ Len(Warehouse(cur')) <= 4))
          => IF /\ Includes(Note(cur'), TruckDelivery)
                /\ Reference1(cur') # <<>>
                /\ Reference2(cur') # <<>>
             THEN AddedToDetail(cur', PDType)
             ELSE NoBucketChanged]_vars

\* rule 5 holds of every row whose key text no other references hold
FallbackWithoutCollision ==
    [][(/\ ScanStep
        /\ Surviving(cur')
        /\ ~Includes(Note(cur'), UPS)
        /\ ~Includes(Note(cur'), SelfPickup)
        /\ ~(Includes(Note(cur'), TruckDelivery) /\ Len(Warehouse(cur')) > 4)
        /\ ~(Warehouse(cur') # <<>> /\ Len(Warehouse(cur')) <= 4)
        /\ ~KeyCollision(cur', PDType))
          => IF /\ Includes(Note(cur'), TruckDelivery)
                /\ Reference1(cur') # <<>>
                /\ Reference2(cur') # <<>>
             THEN AddedToDetail(cur', PDType)
             ELSE NoBucketChanged]_vars

----------------------------------------------------------------------------
\* Vocabulary of the claims about merge regions.

\* the cell (r, c) lies in the region
Covers(merge, r, c) ==
    /\ merge.s.r <= r /\ r <= merge.e.r
    /\ merge.s.c <= c /\ c <= merge.e.c

RegionCells(merge) ==
    { <<r, c>> : r \in merge.s.r..merge.e.r, c \in merge.s.c..merge.e.c }

\* the quantity cells of the rows the region covers
QuantityCellsOf(merge) == { <<r, CtnCol>> : r \in merge.s.r..merge.e.r }

\* the region starts in the quantity column
StartsInQuantityColumn(merge) == merge.s.c = 3

\* a cell holds nothing: no value, or the empty text
EmptyCell(c) == c.k \in {"undef", "norow"} \/ c = Str(<<>>)

\* the cells of a grid, and of the rows a region may add to it
RECURSIVE MaxWidth(_)
MaxWidth(d) ==
    IF d = <<>> THEN 0
    ELSE LET w == MaxWidth(Tail(d)) IN IF Len(Head(d)) > w THEN Len(Head(d)) ELSE w

Positions(d) == { <<r, c>> : r \in 0..(Len(d) - 1), c \in 0..(MaxWidth(d) - 1) }

\* unmergeAndFillCells has returned
Unmerged == pc = "container"

\* the step processes the merge region merges[mergeIx + 1]
UnmergeStep == pc = "unmerge" /\ mergeIx' = mergeIx + 1

\* no other region of the list shares a cell of cells with region k
Alone(k, cells) ==
    \A j \in 1..Len(merges) :
        j # k => \A p \in cells : ~Covers(merges[j], p[1], p[2])

\* the cells the region writes, and what it writes there
WrittenCells(merge) ==
    IF StartsInQuantityColumn(merge)
    THEN { <<r, merge.s.c>> : r \in (merge.s.r + 1)..merge.e.r }
    ELSE RegionCells(merge)

ValueWritten(d, merge) ==
    IF StartsInQuantityColumn(merge) THEN Str(<<>>) ELSE SourceValue(d, merge)

SameValue(a, b) == a = b \/ (EmptyCell(a) /\ EmptyCell(b))

----------------------------------------------------------------------------
\* C12: after unmergeAndFillCells, every cell covered by a merge region that
\* does not start in the quantity column holds the value the region's
\* top-left cell had, whatever the cells of the region held before.  Stated
\* of the regions that share no cell with another region of the list.
C12_RegionHoldsTopLeftValue ==
    Unmerged =>
      \A k \in 1..Len(merges) :
        (~StartsInQuantityColumn(merges[k]) /\ Alone(k, RegionCells(merges[k])))
          => \A p \in RegionCells(merges[k]) :
               SameValue(Cell(data, p[1], p[2]),
                         Cell(sheet, merges[k].s.r, merges[k].s.c))

C14_LastProcessedRegionWins ==
    [][UnmergeStep =>
         \A p \in WrittenCells(merges[mergeIx + 1]) :
           (/\ EmptyCell(Cell(sheet, p[1], p[2]))
            /\ \E j \in 1..mergeIx :
                 /\ merges[j] # merges[mergeIx + 1]
                 /\ p \in WrittenCells(merges[j]))
             => SameValue(Cell(data', p[1], p[2]),
                          ValueWritten(data, merges[mergeIx + 1]))]_vars

\* C15: unmergeAndFillCells writes only into empty cells: processing a region
\* changes no cell outside the region, and a region that does not start in
\* the quantity column changes no cell that held a value.
C15_OnlyEmptyCellsWritten ==
    [][UnmergeStep =>
         \A p \in Positions(data') :
           /\ ~Covers(merges[mergeIx + 1], p[1], p[2])
                => Cell(data', p[1], p[2]) = Cell(data, p[1], p[2])
           /\ (/\ ~StartsInQuantityColumn(merges[mergeIx + 1])
               /\ ~EmptyCell(Cell(data, p[1], p[2])))
                => Cell(data', p[1], p[2]) = Cell(data, p[1], p[2])]_vars

\* the same holds of every cell other than one that holds the number 0
OnlyEmptyOrZeroCellsWritten ==
    [][UnmergeStep =>
         \A p \in Positions(data') :
           /\ ~Covers(merges[mergeIx + 1], p[1], p[2])
                => Cell(data', p[1], p[2]) = Cell(data, p[1], p[2])
           /\ (/\ ~StartsInQuantityColumn(merges[mergeIx + 1])
               /\ ~EmptyCell(Cell(data, p[1], p[2]))
               /\ Cell(data, p[1], p[2]) # Num(0))
                => Cell(data', p[1], p[2]) = Cell(data, p[1], p[2])]_vars

----------------------------------------------------------------------------
\* Vocabulary of the claims about the container number and the header.

\* the text holds four upper-case letters followed by at least 7 digits
HasContainerCode(t) ==
    \E p \in 1..Len(t) :
        /\ p + 10 <= Len(t)
        /\ \A k \in 0..3 : Occurs(UpperCase, t[p + k])
        /\ \A k \in 4..10 : Occurs(Digits, t[p + k])

\* the cells of the grid whose text holds a container code
CodeCells(d) ==
    { p \in Positions(d) : HasContainerCode(CellText(d, p[1], p[2])) }

\* rows [0, min(5, rowCount)), columns [0, min(15, rowWidth))
InWindow(d, p) ==
    /\ p[1] < 5 /\ p[1] < Len(d)
    /\ p[2] < 15 /\ p[2] < RowLength(d, p[1])

\* p comes before q in row-major order
RowMajorBefore(p, q) == p[1] < q[1] \/ (p[1] = q[1] /\ p[2] <= q[2])

WindowCodeCells(d) == { p \in CodeCells(d) : InWindow(d, p) }

\* the first of a set of cells in row-major order
FirstOf(cells) == CHOOSE p \in cells : \A q \in cells : RowMajorBefore(p, q)

FirstCodeCell(d) == FirstOf(WindowCodeCells(d))

\* the code is part of the text
IsPartOf(code, t) ==
    \E p \in 1..Len(t) : p + Len(code) - 1 <= Len(t) /\ SubSeq(t, p, p + Len(code) - 1) = code

\* processExcelData has returned
Returned == pc = "done"

\* C16: the container number returned is taken from the first cell, in
\* row-major order over rows [0, min(5, rowCount)) and columns
\* [0, min(15, rowWidth)), whose text holds four upper-case letters followed
\* by at least 7 digits; a cell in row 5 or later or in column 15 or later is
\* never used, and the result is the empty text when no cell of the window
\* matches.
C16_ContainerFromFirstCellOfWindow ==
    Returned =>
      LET cells == WindowCodeCells(data) IN
      IF cells = {}
      THEN result.containerNumber = <<>>
      ELSE LET t == CellText(data, FirstOf(cells)[1], FirstOf(cells)[2]) IN
           /\ result.containerNumber = ContainerMatch(t)
           /\ HasContainerCode(result.containerNumber)
           /\ IsPartOf(result.containerNumber, t)

\* the number comes from column O (index 14) of a row whose first cell holds
\* near misses and whose column P (index 15) holds another number, while an
\* earlier row in row-major order has a number in column P only
C16_Witness ==
    /\ Returned
    /\ result.containerNumber = TGHU.s
    /\ \E p \in CodeCells(data) : p[2] = 15 /\ p[1] < FirstCodeCell(data)[1]
    /\ \E p \in CodeCells(data) : p[2] = 15 /\ p[1] = FirstCodeCell(data)[1]

\* no number is returned although row 5 holds one in its first cell
C16_WitnessNone ==
    /\ Returned
    /\ result.containerNumber = <<>>
    /\ \E p \in CodeCells(data) : p[1] = 5 /\ p[2] = 0

\* the rows with a cell whose lower-cased text contains "ctn" or the
\* carton-count word
HeaderRows(d) ==
    { r \in 0..(Len(d) - 1) :
        \E c \in 0..(RowLength(d, r) - 1) :
            LET t == ToLowerCase(CellText(d, r, c)) IN
            Includes(t, <<"c", "t", "n">>) \/ Includes(t, <<"U+7BB1", "U+6570">>) }

Least(rows) == CHOOSE r \in rows : \A q \in rows : r <= q

FirstHeaderRow(d) == Least(HeaderRows(d))

\* the header search has finished
Scanning == pc \in {"scan", "post", "done"}

\* C17: when the row scan starts, the data start row is the index after the
\* first row with a cell whose lower-cased text contains "ctn" or the
\* carton-count word, and 2 when no cell of the grid matches; it and the grid
\* stay as they are during the scan; only the row the scan is at changes a
\* bucket or the total, and the scan is never at a row before the data start
\* row.
C17_DataStartAfterFirstHeaderRow ==
    [][/\ (~Scanning /\ Scanning') =>
            LET rows == HeaderRows(data') IN
            dataStartRow' = IF rows = {} THEN 2 ELSE Least(rows) + 1
       /\ (Scanning /\ Scanning') => (dataStartRow' = dataStartRow /\ data' = data)
       /\ Scanning' => i' >= dataStartRow'
       /\ aggregates' # aggregates =>
            /\ Scanning
            /\ i >= dataStartRow
            /\ cur' = data[i + 1]]_vars

\* the sheet holds the same line item above and below its header row; the
\* one above was never read, the one below is the whole result
C17_Witness ==
    /\ Returned
    /\ HeaderRows(data) # {}
    /\ dataStartRow = FirstHeaderRow(data) + 1
    /\ \E r \in 0..(FirstHeaderRow(data) - 1) : data[r + 1] = SheetRows[6]
    /\ \E r \in dataStartRow..(Len(data) - 1) : data[r + 1] = SheetRows[6]
    /\ result.total = 7
    /\ result.warehouseSummary = <<[warehouse |-> YYZ3.s, ctn |-> 7, skid |-> <<>>]>>

\* a sheet without a header: the line item in its first row was never read
C17_WitnessNoHeader ==
    /\ Returned
    /\ HeaderRows(data) = {}
    /\ dataStartRow = 2
    /\ Len(data) >= 3
    /\ data[1] = SheetRows[6]
    /\ data[3] = SheetRows[7]
    /\ result.total = 3

----------------------------------------------------------------------------
\* Vocabulary of the claims about the workbook.

\* the workbook has been generated
Written == pc = "written"

\* the cell in column col (1 is A) of row r
WorkbookCell(r, col) ==
    IF r <= Len(workbook) /\ col <= Len(workbook[r]) THEN workbook[r][col] ELSE Undefined

\* the sum of the ctn values of the entries
RECURSIVE SumOfCtn(_)
SumOfCtn(entries) ==
    IF entries = <<>> THEN 0
    ELSE SumOfCtn(SubSeq(entries, 1, Len(entries) - 1)) + entries[Len(entries)].ctn

\* the rows that start with the label SUB-TOTAL
SubTotalRows ==
    { r \in 1..Len(workbook) :
        WorkbookCell(r, 1) = Str(<<"S", "U", "B", "-", "T", "O", "T", "A", "L">>) }

FirstSubTotalRow == CHOOSE r \in SubTotalRows : \A q \in SubTotalRows : r <= q
FinalSubTotalRow == CHOOSE r \in SubTotalRows : \A q \in SubTotalRows : r >= q

\* C18: in the workbook, the numeric cell B1 is the sum of the ctn values of
\* the warehouseSummary entries plus that of the referenceDetails entries,
\* and is the value of the first SUB-TOTAL row (column B) plus the value of
\* the final SUB-TOTAL row (column D), whatever the total of the summary.
C18_GrandTotalIsSumOfSubTotals ==
    Written =>
      /\ WorkbookCell(1, 2) =
           Num(SumOfCtn(result.warehouseSummary) + SumOfCtn(result.referenceDetails))
      /\ Cardinality(SubTotalRows) = 2
      /\ WorkbookCell(FirstSubTotalRow, 2) = Num(SumOfCtn(result.warehouseSummary))
      /\ WorkbookCell(FinalSubTotalRow, 4) = Num(SumOfCtn(result.referenceDetails))
      /\ WorkbookCell(1, 2).n =
           WorkbookCell(FirstSubTotalRow, 2).n + WorkbookCell(FinalSubTotalRow, 4).n

\* a summary whose total counts a dropped row: B1 is the 7 of the one
\* destination row, the total of the summary is 14
C18_Witness ==
    /\ Written
    /\ Len(result.warehouseSummary) = 1
    /\ result.referenceDetails = <<>>
    /\ result.total = 14
    /\ WorkbookCell(1, 2) = Num(7)
    /\ WorkbookCell(FirstSubTotalRow, 2) = Num(7)
    /\ WorkbookCell(FinalSubTotalRow, 4) = Num(0)

\* a workbook with a destination row of 7 and a category row of 3
C18_WitnessBothSections ==
    /\ Written
    /\ Len(result.warehouseSummary) = 1
    /\ Len(result.referenceDetails) = 1
    /\ WorkbookCell(FirstSubTotalRow, 2) = Num(7)
    /\ WorkbookCell(FinalSubTotalRow, 4) = Num(3)
    /\ WorkbookCell(1, 2) = Num(10)

----------------------------------------------------------------------------
----------------------------------------------------------------------------
\* Vocabulary of the claim about the key of the category buckets.

\* the step classified the row into a category
CategoryStep == ScanStep /\ branch' \in {"self", "pd", "pdFallback"}

\* the category of the row of the step
CategoryOf(b) == IF b = "self" THEN <<"S", "e", "l", "f">> ELSE <<"P", "D">>

\* the row was merged into an entry that earlier rows had made
MergedIntoEntry == Len(referenceDetailsMap') = Len(referenceDetailsMap)

\* C20: category accumulation is keyed by the triple (category, reference1,
\* reference2): a classified row is merged into an entry of earlier rows if
\* and only if one of them had the same category, reference1 and reference2,
\* and the ctn of the entry of its triple grows by its quantity while every
\* other entry stays as it is, also for references that contain "_".
C20_KeyedByTriple ==
    [][CategoryStep =>
         LET type == CategoryOf(branch')
             reference1 == Reference1(cur')
             reference2 == Reference2(cur')
         IN  /\ MergedIntoEntry <=>
                  HasDetail(referenceDetailsMap, type, reference1, reference2)
             /\ DetailCtn(referenceDetailsMap', type, reference1, reference2) =
                  DetailCtn(referenceDetailsMap, type, reference1, reference2)
                    + Quantity(cur').n
             /\ OtherDetails(referenceDetailsMap', type, reference1, reference2) =
                  OtherDetails(referenceDetailsMap, type, reference1, reference2)]_vars

\* the same holds of every row whose key text no other references hold
KeyedByTripleWithoutCollision ==
    [][(CategoryStep /\ ~KeyCollision(cur', CategoryOf(branch'))) =>
         LET type == CategoryOf(branch')
             reference1 == Reference1(cur')
             reference2 == Reference2(cur')
         IN  /\ MergedIntoEntry <=>
                  HasDetail(referenceDetailsMap, type, reference1, reference2)
             /\ DetailCtn(referenceDetailsMap', type, reference1, reference2) =
                  DetailCtn(referenceDetailsMap, type, reference1, reference2)
                    + Quantity(cur').n
             /\ OtherDetails(referenceDetailsMap', type, reference1, reference2) =
                  OtherDetails(referenceDetailsMap, type, reference1, reference2)]_vars

----------------------------------------------------------------------------
\* Vocabulary of the claim about the order of referenceDetails.

\* processExcelData returns in this step
ReturnStep == pc # "done" /\ pc' = "done"

\* what names a bucket of referenceDetailsMap
BucketOf(e) == <<e.type, e.reference1, e.reference2>>

\* C21: referenceDetails lists the category buckets in the order in which
\* the row scan created them: a row either leaves the list of buckets as it
\* is or adds one bucket after all earlier ones, and the returned list holds
\* the buckets in that order, Self and PD mixed, without sorting.
C21_ReferenceDetailsInCreationOrder ==
    [][/\ ScanStep =>
            /\ Len(referenceDetailsMap') \in
                 {Len(referenceDetailsMap), Len(referenceDetailsMap) + 1}
            /\ \A k \in 1..Len(referenceDetailsMap) :
                 BucketOf(referenceDetailsMap'[k]) = BucketOf(referenceDetailsMap[k])
            /\ Len(referenceDetailsMap') > Len(referenceDetailsMap) =>
                 /\ branch' \in {"self", "pd", "pdFallback"}
                 /\ BucketOf(referenceDetailsMap'[Len(referenceDetailsMap')]) =
                      <<CategoryOf(branch'), Reference1(cur'), Reference2(cur')>>
       /\ ReturnStep =>
            /\ Len(result'.referenceDetails) = Len(referenceDetailsMap)
            /\ \A k \in 1..Len(referenceDetailsMap) :
                 /\ BucketOf(result'.referenceDetails[k]) =
                      BucketOf(referenceDetailsMap[k])
                 /\ result'.referenceDetails[k].ctn = referenceDetailsMap[k].ctn]_vars

\* a PD bucket made before a Self bucket is returned before it
C21_Witness ==
    /\ pc = "done"
    /\ Len(result.referenceDetails) = 2
    /\ result.referenceDetails[1].type = <<"P", "D">>
    /\ result.referenceDetails[2].type = <<"S", "e", "l", "f">>

----------------------------------------------------------------------------
\* Vocabulary of the claim about the layout of the workbook.

\* row r of the workbook, empty past the last row
WorkbookRow(r) == IF r \in 1..Len(workbook) THEN workbook[r] ELSE <<>>

\* the numbers 1..24 of the header row
HeaderNumberCells == [k \in 1..24 |-> Num(k)]

\* C22: for n warehouseSummary entries and m referenceDetails entries the
\* workbook holds: row 1 the Total/Date banner, row 2 the column headers
\* "Ware House", "CTN", "Skid", 1..24, rows 3..2+n the warehouse entries in
\* summary order, row 3+n the warehouse SUB-TOTAL, row 4+n the empty
\* separator, row 5+n the detail header, rows 6+n..5+n+m the reference
\* entries in order, row 6+n+m the final SUB-TOTAL, and no row after it;
\* also for n = 0 and for m = 0.
C22_WorkbookLayout ==
    Written =>
      LET n == Len(result.warehouseSummary)
          m == Len(result.referenceDetails)
      IN  /\ Len(workbook) = 6 + n + m
          /\ WorkbookCell(1, 1) = Str(<<"T", "o", "t", "a", "l">>)
          /\ WorkbookCell(1, 2).k = "num"
          /\ WorkbookCell(1, 3) = Str(<<"D", "a", "t", "e", ":">>)
          /\ WorkbookCell(1, 4).k = "str"
          /\ WorkbookRow(2) =
               << Str(<<"W", "a", "r", "e", " ", "H", "o", "u", "s", "e">>),
                  Str(<<"C", "T", "N">>),
                  Str(<<"S", "k", "i", "d">>) >> \o HeaderNumberCells
          /\ \A k \in 1..n :
               WorkbookRow(2 + k) =
                 << Str(result.warehouseSummary[k].warehouse),
                    Num(result.warehouseSummary[k].ctn),
                    Str(<<>>) >>
          /\ WorkbookCell(3 + n, 1) = Str(<<"S", "U", "B", "-", "T", "O", "T", "A", "L">>)
          /\ WorkbookCell(3 + n, 2).k = "num"
          /\ WorkbookRow(4 + n) = <<>>
          /\ WorkbookRow(5 + n) =
               << Str(<<"T", "y", "p", "e">>),
                  Str(<<"R", "e", "f", "e", "r", "e", "n", "c", "e", "1">>),
                  Str(<<"R", "e", "f", "e", "r", "e", "n", "c", "e", "2">>),
                  Str(<<"C", "T", "N">>) >>
          /\ \A k \in 1..m :
               WorkbookRow(5 + n + k) =
                 << Str(result.referenceDetails[k].type),
                    Str(result.referenceDetails[k].reference1),
                    Str(result.referenceDetails[k].reference2),
                    Num(result.referenceDetails[k].ctn) >>
          /\ WorkbookCell(6 + n + m, 1) =
               Str(<<"S", "U", "B", "-", "T", "O", "T", "A", "L">>)
          /\ WorkbookCell(6 + n + m, 4).k = "num"

\* the workbook of a summary without any entry: six rows
C22_Witness ==
    /\ Written
    /\ result.warehouseSummary = <<>>
    /\ result.referenceDetails = <<>>
    /\ Len(workbook) = 6
    /\ WorkbookCell(6, 4) = Num(0)

\* the workbook of a summary with one warehouse entry and one reference entry
C22_WitnessBothSections ==
    /\ Written
    /\ Len(result.warehouseSummary) = 1
    /\ Len(result.referenceDetails) = 1
    /\ Len(workbook) = 8
    /\ WorkbookCell(3, 2).k = "num"
    /\ WorkbookCell(7, 4).k = "num"

----------------------------------------------------------------------------
\* Vocabulary of the claim about the conservation of the quantities.

\* the ctn values of the buckets, before they are materialized
BucketSum == SumOfCtn(warehouseSummary) + SumOfCtn(referenceDetailsMap)

\* the buckets of either kind whose ctn the step changed
ChangedBuckets ==
    { <<"warehouse", k>> : k \in
        { k \in 1..Len(warehouseSummary') :
            k > Len(warehouseSummary) \/ warehouseSummary'[k] # warehouseSummary[k] } }
    \cup
    { <<"reference", k>> : k \in
        { k \in 1..Len(referenceDetailsMap') :
            \/ k > Len(referenceDetailsMap)
            \/ referenceDetailsMap'[k] # referenceDetailsMap[k] } }

\* the total of the summary and what the workbook would hold in B1
SummaryTotal == result.total
RecomputedTotal ==
    SumOfCtn(result.warehouseSummary) + SumOfCtn(result.referenceDetails)

\* every row that passes the skip policy adds its quantity to the running
\* total once and to at most one bucket
QuantityAddedOnce ==
    [][(ScanStep /\ branch' \notin SkippedPaths) =>
         /\ totalCtn' = totalCtn + Quantity(cur').n
         /\ Cardinality(ChangedBuckets) <= 1
         /\ \/ BucketSum' = BucketSum + Quantity(cur').n
            \/ ChangedBuckets = {}]_vars

\* the total is the sum of the buckets plus the quantities of the dropped rows
TotalIsBucketsPlusDropped ==
    /\ totalCtn = BucketSum + droppedSum
    /\ pc = "done" => SummaryTotal = RecomputedTotal + droppedSum

\* C27: conservation in the row scan: at the end of any scan the total of
\* the summary is the sum of the warehouseSummary ctn plus the sum of the
\* referenceDetails ctn plus the quantities of the rows that were classified
\* and dropped, and the total of the summary equals the recomputed total of
\* the workbook exactly when no surviving row was dropped.
C27_TotalConservation ==
    pc = "done" =>
      /\ SummaryTotal = RecomputedTotal + droppedSum
      /\ (SummaryTotal = RecomputedTotal) <=> (droppedRows = 0)

\* the two totals differ exactly when the quantities of the dropped rows do
\* not add up to zero
TotalsDifferByDroppedSum ==
    pc = "done" => ((SummaryTotal = RecomputedTotal) <=> (droppedSum = 0))

----------------------------------------------------------------------------
\* Vocabulary of the claim about the counter of empty rows.

\* the row has a cell that holds the number 0
HasZeroCell(row) == \E j \in 1..Len(row) : row[j] = Num(0)

\* the scan leaves the loop at the break of line 161
BreakStep == pc = "scan" /\ pc' = "post"

\* C28: the counter of consecutive empty rows counts only fully-empty rows:
\* a row whose cells are all empty or white space adds one to it, every row
\* with a non-blank cell sets it to 0, also when the row is then skipped, and
\* the scan stops only on an unbroken run of fully-empty rows as long as the
\* counter says.
C28_CounterCountsOnlyEmptyRows ==
    [][ScanStep =>
         /\ IsBlankRow(cur') => consecutiveEmptyRows' = consecutiveEmptyRows + 1
         /\ ~IsBlankRow(cur') => consecutiveEmptyRows' = 0
         /\ BreakStep => blankRun' = consecutiveEmptyRows']_vars

\* the same holds of every row without a numeric 0 cell
CounterOnRowsWithoutZeroCell ==
    [][(ScanStep /\ ~HasZeroCell(cur')) =>
         /\ IsBlankRow(cur') => consecutiveEmptyRows' = consecutiveEmptyRows + 1
         /\ ~IsBlankRow(cur') => consecutiveEmptyRows' = 0]_vars

----------------------------------------------------------------------------
\* Vocabulary of the claim about the fallback.

\* the note carries one of the three markers
HasMarker(row) ==
    \/ Includes(Note(row), <<"U", "P", "S">>)
    \/ Includes(Note(row), SelfPickup)
    \/ Includes(Note(row), TruckDelivery)

\* the row is one of the truck-delivery rule: marker and a code of more than 4
TruckRuleRow(row) ==
    Includes(Note(row), TruckDelivery) /\ Len(Warehouse(row)) > 4

\* the step added the quantity of the row to a PD bucket
AddedToPD ==
    /\ referenceDetailsMap' # referenceDetailsMap
    /\ \E k \in 1..Len(referenceDetailsMap') :
         /\ referenceDetailsMap'[k].type = <<"P", "D">>
         /\ \/ k > Len(referenceDetailsMap)
            \/ referenceDetailsMap'[k] # referenceDetailsMap[k]

\* C29: the PD branch of the fallback is reached only by rows whose
\* warehouseCode is empty: a surviving row that is accumulated as PD and is
\* not a row of the truck-delivery rule has an empty warehouseCode, and a
\* surviving row with a warehouseCode of more than 4 characters and no UPS,
\* self-pickup or truck-delivery marker in its note lands in no bucket.
C29_FallbackOnlyWithoutWarehouse ==
    [][(ScanStep /\ branch' \notin SkippedPaths) =>
         /\ (AddedToPD /\ ~TruckRuleRow(cur')) =>
              /\ Warehouse(cur') = <<>>
              /\ Includes(Note(cur'), TruckDelivery)
         /\ (Len(Warehouse(cur')) > 4 /\ ~HasMarker(cur')) => NoBucketChanged]_vars

\* a row without warehouseCode was accumulated as PD by the fallback
C29_Witness ==
    /\ pc = "scan"
    /\ branch = "pdFallback"
    /\ Warehouse(cur) = <<>>
    /\ Includes(Note(cur), TruckDelivery)
    /\ Len(referenceDetailsMap) = 1
    /\ referenceDetailsMap[1].type = <<"P", "D">>
    /\ referenceDetailsMap[1].ctn = 7

\* a row with the code LONGCODE, both references and an empty note was dropped
C29_WitnessDropped ==
    /\ pc = "scan"
    /\ Len(Warehouse(cur)) > 4
    /\ Reference1(cur) # <<>>
    /\ Reference2(cur) # <<>>
    /\ Note(cur) = <<>>
    /\ totalCtn = 7
    /\ warehouseSummary = <<>>
    /\ referenceDetailsMap = <<>>

----------------------------------------------------------------------------
\* Vocabulary of the claim about the quantity cells.

\* the rows of either grid
RowsOf(d, e) == 0..((IF Len(d) > Len(e) THEN Len(d) ELSE Len(e)) - 1)

\* the region starts left of the quantity column and reaches it
CrossesQuantityColumn(merge) == merge.s.c < 3 /\ merge.e.c >= 3

\* C30: normalization never creates quantity: processing a merge region
\* never changes an empty quantity cell (column index 3) into a non-empty
\* one, whatever the list of regions, also for a region that starts left of
\* column 3 and spans across it.
C30_NoQuantityCreated ==
    [][UnmergeStep =>
         \A r \in RowsOf(data, data') :
             EmptyCell(Cell(data, r, 3)) => EmptyCell(Cell(data', r, 3))]_vars

\* the same holds of every region that does not reach the quantity column
\* from its left
NoQuantityCreatedUnlessCrossed ==
    [][(UnmergeStep /\ ~CrossesQuantityColumn(merges[mergeIx + 1])) =>
         \A r \in RowsOf(data, data') :
             EmptyCell(Cell(data, r, 3)) => EmptyCell(Cell(data', r, 3))]_vars

----------------------------------------------------------------------------
\* The storage of the status records (src/unnamed/part_002, MemStorage).
\* A record is kept under its id; createdAt, updatedAt and fileSize are left
\* out.  An absent value is the empty sequence, a present one a sequence of
\* one element.

MaxUploads == 2
MaxClock == 1

Nothing == <<>>
Some(x) == <<x>>

\* createProcessedFile: this.files.set(id, file) with id = this.currentId++
CreateProcessedFile(fs, id, insertFile) ==
    [k \in (DOMAIN fs) \cup {id} |->
        IF k = id
        THEN [id |-> id,
              status |-> insertFile.status,
              originalFilename |-> insertFile.originalFilename,
              processedFilename |-> insertFile.processedFilename,
              totalRecords |-> insertFile.totalRecords,
              errorMessage |-> insertFile.errorMessage,
              processedData |-> Nothing]
        ELSE fs[k]]

\* variant: the status of the record is left as it was
UpdateErrorMessageOnly(fs, id, status, errorMessage) ==
    IF id \in DOMAIN fs
    THEN [fs EXCEPT ![id] = [@ EXCEPT !.errorMessage = Some(errorMessage)]]
    ELSE fs

\* updateProcessedFileStatus, called with an error message
UpdateProcessedFileStatus(fs, id, status, errorMessage) ==
    IF id \in DOMAIN fs
    THEN [fs EXCEPT ![id] = [@ EXCEPT !.status = status,
                                      !.errorMessage = Some(errorMessage)]]
    ELSE fs

\* updateProcessedFileWithData: the record gets the status, the number of
\* records and the summary
UpdateProcessedFileWithData(fs, id, status, totalRecords, processedData) ==
    IF id \in DOMAIN fs
    THEN [fs EXCEPT ![id] = [@ EXCEPT !.status = status,
                                      !.totalRecords = totalRecords,
                                      !.processedData = Some(processedData)]]
    ELSE fs

----------------------------------------------------------------------------
\* The directory uploads/: the files by name.  by is the invocation that
\* wrote the file last, writers are all that wrote it.

\* fs.writeFileSync(path, content)
WriteFileSync(d, name, content, inv) ==
    [n \in (DOMAIN d) \cup {name} |->
        IF n = name
        THEN [content |-> content, by |-> inv,
              writers |-> (IF name \in DOMAIN d THEN d[name].writers ELSE {})
                            \cup {inv}]
        ELSE d[n]]

\* fs.unlinkSync(path)
UnlinkSync(d, name) == [n \in (DOMAIN d) \ {name} |-> d[n]]

\* the name multer gives the uploaded file: random, here the invocation's
TempName(inv) == <<"u", "p", "l", "o", "a", "d">> \o NumberToString(inv)

----------------------------------------------------------------------------
\* POST /api/upload (lines 503-591).

WordCharacters ==
    { UpperCase[k] : k \in 1..Len(UpperCase) } \cup
    { LowerCase[k] : k \in 1..Len(LowerCase) } \cup
    { Digits[k] : k \in 1..Len(Digits) } \cup {"_"}

\* filename.replace(/[^\w\s.-]/g, '_')
SafeFilename(filename) ==
    [k \in 1..Len(filename) |->
        IF filename[k] \in WordCharacters \cup WhiteSpace \cup {".", "-"}
        THEN filename[k]
        ELSE "_"]

\* `processed_${timestamp}_${safeFilename}`
ProcessedFilename(timestamp, safeFilename) ==
    <<"p", "r", "o", "c", "e", "s", "s", "e", "d", "_">>
      \o NumberToString(timestamp) \o <<"_">> \o safeFilename

\* variant: the text of the catch of another handler
MessageUnknown(error) == "Unknown error"

\* error instanceof Error ? error.message : ...; every value thrown here is
\* an Error
MessageOf(error) == error.message

\* the errors of the calls of the try block
ReadError == [message |-> "ENOENT: no such file or directory"]
ParseError == [message |-> "Unsupported file"]
NoSheetError == [message |-> "Cannot read properties of undefined (reading '!merges')"]
NoRowError == [message |-> "Cannot read properties of undefined (reading 'length')"]
RenderError == [message |-> "Out of memory"]
WriteError == [message |-> "ENOSPC: no space left on device"]
UnlinkError == [message |-> "EPERM: operation not permitted"]

NoResponse == [code |-> 0, message |-> "", status |-> "", fileId |-> 0]

\* an invocation before its request arrives
Waiting ==
    [pc |-> "waiting", filename |-> <<>>, processedFilename |-> <<>>, id |-> 0,
     processedData |-> Nothing, outputBuffer |-> Nothing, error |-> Nothing,
     response |-> NoResponse]

Invocations == 1..MaxUploads

\* the requests are numbered as they arrive
NextToArrive(inv) ==
    /\ uploads[inv].pc = "waiting"
    /\ \A v \in Invocations : v < inv => uploads[v].pc # "waiting"

\* no handler is between two awaits: the thread is free
ThreadFree ==
    /\ pc = "idle"
    /\ \A v \in Invocations : uploads[v].pc \notin {"running", "caught"}

\* the state of processExcelData when the handler calls it on a worksheet
CallProcessExcelData(worksheet) ==
    /\ pc' = "unmerge"
    /\ sheet' = worksheet.sheet
    /\ merges' = worksheet.merges
    /\ mergeIx' = 0
    /\ data' = worksheet.sheet
    /\ containerNumber' = <<>>
    /\ dataStartRow' = 0 - 1
    /\ dataLen' = Len(worksheet.sheet)
    /\ i' = 0
    /\ consecutiveEmptyRows' = 0
    /\ warehouseSummary' = <<>>
    /\ referenceDetailsMap' = <<>>
    /\ totalCtn' = 0
    /\ cur' = <<>>
    /\ branch' = "none"
    /\ result' = NoResult
    /\ workbook' = <<>>
    /\ blankRun' = 0
    /\ seenRun' = FALSE
    /\ counted' = 0
    /\ landedSum' = 0
    /\ droppedRows' = 0
    /\ droppedSum' = 0
    /\ UNCHANGED callVars

\* the locals of processExcelData and generateOutputExcel are gone when
\* the handler is at an await or has answered
NoCall ==
    /\ pc = "idle"
    /\ sheet = <<>>
    /\ merges = <<>>
    /\ mergeIx = 0
    /\ data = <<>>
    /\ containerNumber = <<>>
    /\ dataStartRow = 0 - 1
    /\ dataLen = 0
    /\ i = 0
    /\ consecutiveEmptyRows = 0
    /\ warehouseSummary = <<>>
    /\ referenceDetailsMap = <<>>
    /\ totalCtn = 0
    /\ cur = <<>>
    /\ branch = "none"
    /\ result = NoResult
    /\ workbook = <<>>
    /\ run = 1
    /\ first = NoResult
    /\ blankRun = 0
    /\ seenRun = FALSE
    /\ counted = 0
    /\ landedSum = 0
    /\ droppedRows = 0
    /\ droppedSum = 0

\* the call returns or throws: its locals are gone
EndOfCall ==
    /\ pc' = "idle"
    /\ sheet' = <<>>
    /\ merges' = <<>>
    /\ mergeIx' = 0
    /\ data' = <<>>
    /\ containerNumber' = <<>>
    /\ dataStartRow' = 0 - 1
    /\ dataLen' = 0
    /\ i' = 0
    /\ consecutiveEmptyRows' = 0
    /\ warehouseSummary' = <<>>
    /\ referenceDetailsMap' = <<>>
    /\ totalCtn' = 0
    /\ cur' = <<>>
    /\ branch' = "none"
    /\ result' = NoResult
    /\ workbook' = <<>>
    /\ run' = 1
    /\ first' = NoResult
    /\ blankRun' = 0
    /\ seenRun' = FALSE
    /\ counted' = 0
    /\ landedSum' = 0
    /\ droppedRows' = 0
    /\ droppedSum' = 0

\* the locals of processExcelData, which the handler does not touch
processVars ==
    <<gridVars, dataLen, scanVars, result, workbook, callVars>>

\* the request has no file (line 505), or a size that the schema rejects
\* (line 509): a response and no record
Refuse(inv, withFile) ==
    /\ ThreadFree
    /\ NextToArrive(inv)
    /\ uploads' = [uploads EXCEPT ![inv] =
         [@ EXCEPT !.pc = "responded",
                   !.response =
                      IF withFile
                      THEN [NoResponse EXCEPT !.code = 500,
                                              !.message = "Number must be greater than or equal to 1"]
                      ELSE [NoResponse EXCEPT !.code = 400,
                                              !.message = "No file uploaded"]]]
    /\ UNCHANGED <<pc, processVars, files, currentId, disk, now>>

\* lines 505-540: the name, the record, the uploaded file read and parsed,
\* up to the call of processExcelData; multer has stored the upload.  failed
\* is the error of readFileSync, if it throws.
Receive(inv, request, failed) ==
    LET timestamp == now
        safeFilename == SafeFilename(request.filename)
        processedFilename == ProcessedFilename(timestamp, safeFilename)
        id == currentId
        thrown ==
            IF failed # Nothing THEN failed
            ELSE IF request.content = "garbage" THEN Some(ParseError)
            ELSE IF request.content = "nosheet" THEN Some(NoSheetError)
            ELSE Nothing
    IN
    /\ ThreadFree
    /\ NextToArrive(inv)
    /\ currentId' = currentId + 1
    /\ files' = CreateProcessedFile(files, id,
                   [originalFilename |-> request.filename,
                    processedFilename |-> processedFilename,
                    status |-> "processing",
                    totalRecords |-> 0,
                    errorMessage |-> Nothing])
    /\ disk' = WriteFileSync(disk, TempName(inv), request.content, inv)
    /\ uploads' = [uploads EXCEPT ![inv] =
         [@ EXCEPT !.pc = IF thrown = Nothing THEN "running" ELSE "caught",
                   !.filename = request.filename,
                   !.processedFilename = processedFilename,
                   !.id = id,
                   !.error = thrown]]
    /\ IF thrown = Nothing
       THEN CallProcessExcelData(request.worksheet)
       ELSE UNCHANGED <<pc, processVars>>
    /\ UNCHANGED now

\* processExcelData has thrown (line 134 on a row that is undefined)
Thrown(inv) ==
    /\ pc = "threw"
    /\ uploads[inv].pc = "running"
    /\ uploads' = [uploads EXCEPT ![inv] =
         [@ EXCEPT !.pc = "caught", !.error = Some(NoRowError)]]
    /\ EndOfCall
    /\ UNCHANGED <<files, currentId, disk, now>>

\* await generateOutputExcel(processedData): the worksheet is filled and
\* the handler waits for writeBuffer
AwaitBuffer(inv) ==
    /\ pc = "written"
    /\ uploads[inv].pc = "running"
    /\ uploads' = [uploads EXCEPT ![inv] =
         [@ EXCEPT !.pc = "rendering",
                   !.processedData = Some(result),
                   !.outputBuffer = Some(workbook)]]
    /\ EndOfCall
    /\ UNCHANGED <<files, currentId, disk, now>>

\* lines 545-570 after the await: the buffer, the output file, the record,
\* the uploaded file removed, the response.  failed names the call that
\* throws, if one does: "render", "write", "unlink".
Complete(inv, failed) ==
    LET u == uploads[inv]
        written == WriteFileSync(disk, u.processedFilename, u.outputBuffer[1], inv)
        updated == UpdateProcessedFileWithData(files, u.id, "completed",
                                               u.processedData[1].total,
                                               u.processedData[1])
    IN
    /\ ThreadFree
    /\ u.pc = "rendering"
    /\ disk' = IF failed \in {"render", "write"} THEN disk
               ELSE IF failed = "unlink" THEN written
               ELSE UnlinkSync(written, TempName(inv))
    /\ files' = IF failed \in {"render", "write"} THEN files ELSE updated
    /\ uploads' = [uploads EXCEPT ![inv] =
         IF failed = "none"
         THEN [@ EXCEPT !.pc = "responded",
                        !.response =
                           [code |-> 200,
                            message |-> "File processed successfully",
                            status |-> "completed",
                            fileId |-> u.id]]
         ELSE [@ EXCEPT !.pc = "caught",
                        !.error = Some(IF failed = "render" THEN RenderError
                                       ELSE IF failed = "write" THEN WriteError
                                       ELSE UnlinkError)]]
    /\ UNCHANGED <<pc, processVars, currentId, now>>

\* the catch of line 572: the record is marked and the error is answered
Catch(inv) ==
    LET u == uploads[inv] IN
    /\ pc = "idle"
    /\ u.pc = "caught"
    /\ files' = UpdateProcessedFileStatus(files, u.id, "failed", MessageOf(u.error[1]))
    /\ uploads' = [uploads EXCEPT ![inv] =
         [@ EXCEPT !.pc = "responded",
                   !.response = [NoResponse EXCEPT !.code = 500,
                                                   !.message = MessageOf(u.error[1])]]]
    /\ UNCHANGED <<pc, processVars, currentId, disk, now>>

\* a millisecond passes before a request arrives
Tick ==
    /\ ThreadFree
    /\ \E inv \in Invocations : uploads[inv].pc = "waiting"
    /\ now < MaxClock
    /\ now' = now + 1
    /\ UNCHANGED <<pc, processVars, uploads, files, currentId, disk>>

\* GET /api/files/:id/download (lines 612-634): what the response carries
Download(id) ==
    IF id \notin DOMAIN files \/ files[id].status # "completed"
    THEN [code |-> 404, file |-> Nothing]
    ELSE IF files[id].processedFilename \notin DOMAIN disk
    THEN [code |-> 404, file |-> Nothing]
    ELSE [code |-> 200, file |-> Some(disk[files[id].processedFilename])]

----------------------------------------------------------------------------
\* The uploads: two names that give the same safe name, and the contents.

UploadNames ==
    { <<"a", "#", ".", "x", "l", "s", "x">>, <<"a", "%", ".", "x", "l", "s", "x">> }

\* a sheet with a header row, two line items and a merged reference; a
\* sheet with a merge range below its last row
Worksheets ==
    { [sheet |-> <<SheetRows[4], SheetRows[6], SheetRows[7]>>,
       merges |-> << Merge(1, 2, 0, 0) >>],
      [sheet |-> <<SheetRows[6]>>, merges |-> << Merge(3, 3, 0, 0) >>] }

NoWorksheet == [sheet |-> <<>>, merges |-> <<>>]

Requests ==
    { [filename |-> n, content |-> "workbook", worksheet |-> w] :
        n \in UploadNames, w \in Worksheets }
    \cup
    { [filename |-> n, content |-> c, worksheet |-> NoWorksheet] :
        n \in UploadNames, c \in {"garbage", "nosheet"} }

InitUpload ==
    /\ NoCall
    /\ uploads = [v \in Invocations |-> Waiting]
    /\ files = <<>>
    /\ currentId = 1
    /\ disk = <<>>
    /\ now = 0

NextUpload ==
    \/ \E inv \in Invocations, withFile \in BOOLEAN : Refuse(inv, withFile)
    \/ \E inv \in Invocations, request \in Requests,
          failed \in {Nothing, Some(ReadError)} : Receive(inv, request, failed)
    \/ UnmergeRegion
    \/ UnmergeReturn
    \/ FindContainer
    \/ FindHeader
    \/ ScanData
    \/ Materialize
    \/ WriteWorkbook
    \/ \E inv \in Invocations : Thrown(inv)
    \/ \E inv \in Invocations : AwaitBuffer(inv)
    \/ \E inv \in Invocations,
          failed \in {"none", "render", "write", "unlink"} : Complete(inv, failed)
    \/ \E inv \in Invocations : Catch(inv)
    \/ Tick

SpecUpload == InitUpload /\ [][NextUpload]_vars

----------------------------------------------------------------------------
\* Vocabulary of the claims about the upload handler.

\* the invocation created a status record
HasRecord(inv) == uploads[inv].id # 0

\* the record of the invocation
RecordOf(inv) == files[uploads[inv].id]

\* the response of the invocation has been sent
Responded(inv) == uploads[inv].response.code # 0

\* a call of the try block threw in this invocation
Failed(inv) == uploads[inv].error # Nothing

\* C23: a failure while the sheet is read, aggregated or rendered is terminal
\* and not retried: the failed invocation does nothing but answer, its
\* record ends in the status "failed" with the message of the thrown error as
\* errorMessage, the caller gets an error response with that same message,
\* and record and response stay as they are.
C23_FailureIsTerminalAndReported ==
    [][\A inv \in Invocations :
         /\ Failed(inv) =>
              /\ uploads'[inv].error = uploads[inv].error
              /\ uploads'[inv].pc \in {"caught", "responded"}
              /\ uploads'[inv].pc = "caught" => uploads[inv].pc = "caught"
         /\ (uploads'[inv].error # Nothing /\ uploads'[inv].response.code # 0) =>
              /\ files'[uploads'[inv].id].status = "failed"
              /\ files'[uploads'[inv].id].errorMessage =
                   Some(uploads'[inv].error[1].message)
              /\ uploads'[inv].response.code = 500
              /\ uploads'[inv].response.message = uploads'[inv].error[1].message]_vars

\* the handler has answered a failure of processExcelData
C23_Witness ==
    \E inv \in Invocations :
        /\ uploads[inv].error = Some(NoRowError)
        /\ Responded(inv)
        /\ RecordOf(inv).status = "failed"
        /\ RecordOf(inv).errorMessage # Nothing
        /\ uploads[inv].response.message =
             "Cannot read properties of undefined (reading 'length')"

\* the handler has answered a failure of the rendering
C23_WitnessRender ==
    \E inv \in Invocations :
        /\ uploads[inv].error = Some(RenderError)
        /\ Responded(inv)
        /\ RecordOf(inv).status = "failed"
        /\ uploads[inv].response.code = 500

\* the handler has answered a failure of the reading
C23_WitnessRead ==
    \E inv \in Invocations :
        /\ uploads[inv].error \in {Some(ReadError), Some(ParseError)}
        /\ Responded(inv)
        /\ RecordOf(inv).status = "failed"
        /\ uploads[inv].response.code = 500

----------------------------------------------------------------------------
\* an output workbook exists under the processed filename of the record
OutputExists(record) == record.processedFilename \in DOMAIN disk

\* summary data is stored on the record
SummaryStored(record) == record.processedData # Nothing

\* C24: when an invocation ends with the status "failed", nothing of it is
\* persisted: no output workbook exists under its processed filename and no
\* summary is stored on its record; a stored summary or an output workbook
\* exists only for records whose final status is "completed".
C24_NothingPersistedOnFailure ==
    \A inv \in Invocations :
        (HasRecord(inv) /\ Responded(inv)) =>
          /\ RecordOf(inv).status = "failed" =>
               /\ ~OutputExists(RecordOf(inv))
               /\ ~SummaryStored(RecordOf(inv))
          /\ (OutputExists(RecordOf(inv)) \/ SummaryStored(RecordOf(inv))) =>
               RecordOf(inv).status = "completed"

\* an invocation that failed before it wrote its output has written no file
\* and stored no summary
NothingPersistedBeforeTheWrite ==
    \A inv \in Invocations :
        (Responded(inv) /\ Failed(inv) /\ uploads[inv].error # Some(UnlinkError)) =>
          /\ ~SummaryStored(RecordOf(inv))
          /\ \A n \in DOMAIN disk :
               n # TempName(inv) => inv \notin disk[n].writers

----------------------------------------------------------------------------
\* C25: processing is inline: when the response of a request that created a
\* status record is sent, the status of the record is "completed" or
\* "failed", never "processing", and a "completed" response is sent only
\* after the output workbook was written and the record updated.
C25_ResponseAfterTerminalStatus ==
    \A inv \in Invocations :
        (HasRecord(inv) /\ Responded(inv)) =>
          /\ RecordOf(inv).status \in {"completed", "failed"}
          /\ uploads[inv].response.status = "completed" =>
               /\ OutputExists(RecordOf(inv))
               /\ inv \in disk[RecordOf(inv).processedFilename].writers
               /\ RecordOf(inv).status = "completed"
               /\ RecordOf(inv).processedData = uploads[inv].processedData

\* a completed response: the workbook is in the directory, the record holds
\* the summary and its total
C25_Witness ==
    \E inv \in Invocations :
        /\ uploads[inv].response.status = "completed"
        /\ RecordOf(inv).status = "completed"
        /\ RecordOf(inv).totalRecords = 10
        /\ OutputExists(RecordOf(inv))

\* an error response: the record is marked as failed
C25_WitnessFailed ==
    \E inv \in Invocations :
        /\ HasRecord(inv)
        /\ uploads[inv].response.code = 500
        /\ RecordOf(inv).status = "failed"

----------------------------------------------------------------------------
\* the invocation that created the record id
CreatorOf(id) == CHOOSE inv \in Invocations : uploads[inv].id = id

\* C26: under any interleaving of upload invocations every generated output
\* name is written by at most one invocation, so no invocation overwrites
\* the output workbook of another and a download serves the workbook that
\* the record's own invocation wrote, also for two uploads of the same
\* original filename.
C26_OutputNameWrittenOnce ==
    /\ \A n \in DOMAIN disk : Cardinality(disk[n].writers) <= 1
    /\ \A id \in DOMAIN files :
         Download(id).code = 200 => Download(id).file[1].by = CreatorOf(id)

\* the same holds as long as no two records have the same processed filename
WrittenOnceUnderDistinctNames ==
    (\A a, b \in DOMAIN files :
        a # b => files[a].processedFilename # files[b].processedFilename)
    =>
    /\ \A n \in DOMAIN disk : Cardinality(disk[n].writers) <= 1
    /\ \A id \in DOMAIN files :
         Download(id).code = 200 => Download(id).file[1].by = CreatorOf(id)

====
